---------------------------- MODULE Spec2Model ----------------------------
(***************************************************************************)
(* NVMe-Strom kernel module (kmod/nvme_strom.c): the registry of mapped    *)
(* GPU memory regions, the registry of SSD-to-GPU DMA tasks, the wait      *)
(* protocol and the request scheduler that merges blocks into DMA          *)
(* requests.                                                               *)
(*                                                                         *)
(* Spin-lock protected sections of the source are single atomic steps; a   *)
(* function that drops its lock, sleeps or calls into another lock domain  *)
(* is split at those points, each thread's position kept in a pc field.    *)
(***************************************************************************)
EXTENDS Integers, Sequences, FiniteSets, TLC

(* ------------------------------ bounds --------------------------------- *)
\* number of mapped_gpu_memory records the model allocates
MaxRegions == 1
\* number of strom_dma_task records the model allocates
MaxTasks == 1
\* asynchronous DMA requests one task may submit
MaxXfers == 2
\* threads calling ioctl(STROM_IOCTL__MEMCPY_SSD2GPU_WAIT)
MaxWaiters == 2
\* hash slots of the DMA task table the model uses (STROM_DMA_TASK_NSLOTS scaled down)
DmaTaskSlots == 1

(* --------------------------- program constants ------------------------- *)
ENOENT == -2
EINTR == -4
EIO == -5
ENOMEM == -12
EFAULT == -14
EINVAL == -22
ERANGE == -34
ENOBUFS == -105

Regions == 1..MaxRegions
Tasks == 1..MaxTasks
\* effective user ids of the calling processes
Uids == {"uid_a", "uid_b"}
\* the kernel's NULL pointer, for fields that hold a region
NULL == 0
\* threads that wait: the ioctl callers, then one per task for the submitter's
\* own wait on its error path (line 1539)
WaitIds == 1..(MaxWaiters + MaxTasks)
UserWaiters == 1..MaxWaiters
SubmitterWaiter(t) == MaxWaiters + t
\* the struct file of the one open of /proc/nvme-strom
Filp == 1
\* completion status of an asynchronous DMA request
DmaStatuses == {0, EIO, ENOMEM}

VARIABLES
    mgmem,        \* [Regions -> struct mapped_gpu_memory plus its allocation state]
    cb,           \* [Regions -> the thread running callback_release_mapped_gpu_memory]
    um,           \* [Regions -> the thread running ioctl_unmap_gpu_memory]
    info,         \* the thread running ioctl_info_gpu_memory
    module_refcnt,\* __module_get / module_put balance of THIS_MODULE
    panic,        \* "none", or the Assert() that failed
    ghost,        \* history: per region, calls that released the page table, acquires, faults
    dtask,        \* [Tasks -> struct strom_dma_task, its allocation state and its list]
    sub,          \* [Tasks -> the thread running ioctl_memcpy_ssd2gpu_writeback]
    tail,         \* [Tasks -> the strom_put_dma_task call that brought refcnt to zero]
    waiter,       \* [WaitIds -> a thread running strom_memcpy_ssd2gpu_wait]
    tghost,       \* history: per task id, kfree calls and -EIO returns
    world,        \* what one batch runs against: the mapped region, the file, its blocks, the page cache
    karg,         \* StromCmd__MemCpySsdToGpuWriteBack of the batch
    chunk_ids_in, \* [0..nr_chunks-1 -> chunk id], copied from user space
    chunk_ids_out,\* [0..nr_chunks-1 -> chunk id], or UNSET where nothing was stored
    wtask,        \* the block size, the block limit and the pending run of the batch's strom_dma_task
    wb,           \* the thread running memcpy_ssd2gpu_writeback: position, locals, return value
    xfers,        \* DMA requests accepted by nvme_submit_async_read_cmd, in submission order
    wb_buffer,    \* [0..nr_chunks-1 -> chunk id copied to that slot of karg->wb_buffer]
    ioctl_file,   \* the struct file of /proc/nvme-strom the ioctls are called on
    lockst        \* the slot spin locks: who holds each, and where each thread is in its function

taskVars == <<dtask, sub, tail, waiter, tghost>>
schedVars == <<world, karg, chunk_ids_in, chunk_ids_out, wtask, wb, xfers, wb_buffer>>
vars == <<mgmem, cb, um, info, module_refcnt, panic, ghost, dtask, sub, tail, waiter, tghost,
          world, karg, chunk_ids_in, chunk_ids_out, wtask, wb, xfers, wb_buffer,
          ioctl_file, lockst>>


(* ------------------- mapped GPU memory: lookup and refcount ------------- *)

\* faulty variant of MgmemFound: the walk also finds a record that was detached
MgmemFound_IgnoresChain(r, uid) ==
    /\ mgmem[r].state = "alloc"
    /\ mgmem[r].owner = uid

\* faulty variant of MgmemFound: the owner of the record is not compared
MgmemFound_AnyOwner(r, uid) == mgmem[r].chain = "linked"

\* the list walk of the hash slot: the record is chained and owned by the caller
MgmemFound(r, uid) ==
    /\ mgmem[r].chain = "linked"
    /\ mgmem[r].owner = uid

\* panic() stops the kernel: no thread takes a step after a failed Assert()
Alive == panic = "none"

\* history: the owner looked up a record that had been chained and is not any more
NotFoundNote(r, uid) ==
    [ghost EXCEPT ![r].notfound_after_removal =
        @ \/ (mgmem[r].state # "unalloc" /\ ghost[r].map_rc = 0 /\ mgmem[r].owner = uid)]

\* history: a caller other than the owner looked up a chained record through
\* the info ioctl or the unmap ioctl
ForeignNote(g, r, uid) ==
    [g EXCEPT ![r].foreign_denied =
        @ \/ (mgmem[r].chain = "linked" /\ mgmem[r].owner # uid)]

\* mgmem->refcnt++ under the slot lock
MgmemRefInc(r) == [mgmem EXCEPT ![r].refcnt = @ + 1]

\* faulty variants of PutWakesWaiter: a wake-up on every put, and no wake-up at all
PutWakesWaiter_AnyRefcnt(refcnt_new, wait_task) == wait_task # "NULL"

PutWakesWaiter_Never(refcnt_new, wait_task) == FALSE

\* the condition under which the last put wakes the sleeping callback
PutWakesWaiter(refcnt_new, wait_task) == refcnt_new = 0 /\ wait_task # "NULL"

\* strom_put_mapped_gpu_memory(mgmem): one critical section of the slot lock
strom_put_mapped_gpu_memory(r) ==
    IF mgmem[r].refcnt > 0
    THEN /\ mgmem' = [mgmem EXCEPT ![r].refcnt = @ - 1,
                                   ![r].wait_task =
                                       IF mgmem[r].refcnt - 1 = 0 THEN "NULL" ELSE @]
         /\ cb' = IF PutWakesWaiter(mgmem[r].refcnt - 1, mgmem[r].wait_task)
                  THEN [cb EXCEPT ![r].tstate = "TASK_RUNNING"]
                  ELSE cb
         /\ ghost' = [ghost EXCEPT ![r].uaf = @ \/ mgmem[r].state = "freed"]
         /\ panic' = panic
    ELSE /\ panic' = "Assert(mgmem->refcnt > 0)"
         /\ UNCHANGED <<mgmem, cb, ghost>>

(* ------------------------- ioctl_map_gpu_memory ------------------------- *)

MapOutcomes == {"ok", "get_pages_failed", "bad_page_size"}

ioctl_map_gpu_memory(r, uid, outcome) ==
    /\ Alive
    /\ mgmem[r].state = "unalloc"
    /\ \A q \in Regions : q < r => mgmem[q].state # "unalloc"
    /\ IF outcome = "ok"
       THEN /\ mgmem' = [mgmem EXCEPT ![r] =
                           [state |-> "alloc", owner |-> uid, refcnt |-> 0,
                            chain |-> "linked", wait_task |-> "NULL",
                            page_table |-> "pinned"]]
            /\ module_refcnt' = module_refcnt + 1
            /\ ghost' = [ghost EXCEPT ![r].map_rc = 0]
       ELSE /\ mgmem' = [mgmem EXCEPT ![r].state = "freed", ![r].owner = uid,
                                      ![r].page_table =
                                          IF outcome = "bad_page_size"
                                          THEN "released" ELSE "none"]
            /\ module_refcnt' = module_refcnt
            /\ ghost' = [ghost EXCEPT
                           ![r].map_rc = EINVAL,
                           ![r].unpins = IF outcome = "bad_page_size"
                                         THEN @ + 1 ELSE @]
    /\ UNCHANGED <<cb, um, info, panic>>
    /\ UNCHANGED taskVars
    /\ UNCHANGED <<schedVars, ioctl_file, lockst>>

(* ------------------------ ioctl_unmap_gpu_memory ------------------------ *)

\* faulty variant of UnmapDetach: the record is left on the slot list
UnmapDetach_NoListDel(r, uid) ==
    /\ panic = "none"
    /\ um[r].pc = "idle"
    /\ IF mgmem[r].chain = "linked" /\ mgmem[r].owner = uid
       THEN um' = [um EXCEPT ![r].pc = "put_pages"]
       ELSE um' = [um EXCEPT ![r].last_rc = ENOENT]
    /\ UNCHANGED <<mgmem, cb, info, module_refcnt, panic, ghost, taskVars>>
    /\ UNCHANGED <<schedVars, ioctl_file, lockst>>

\* lines 422-435 and 445-448: the slot walk, list_del and unlock, or -ENOENT
UnmapDetach(r, uid) ==
    /\ Alive
    /\ um[r].pc = "idle"
    /\ IF MgmemFound(r, uid)
       THEN /\ mgmem' = [mgmem EXCEPT ![r].chain = "null"]
            /\ um' = [um EXCEPT ![r].pc = "put_pages"]
            /\ ghost' = ghost
       ELSE /\ um' = [um EXCEPT ![r].last_rc = ENOENT]
            /\ mgmem' = mgmem
            /\ ghost' = ForeignNote(ghost, r, uid)
    /\ UNCHANGED <<cb, info, module_refcnt, panic>>
    /\ UNCHANGED taskVars
    /\ UNCHANGED <<schedVars, ioctl_file, lockst>>

\* lines 437-442: __nvidia_p2p_put_pages(mgmem->map_address, mgmem->page_table)
UnmapPutPages(r, rc) ==
    /\ Alive
    /\ um[r].pc = "put_pages"
    /\ rc \in IF mgmem[r].page_table = "pinned" /\ mgmem[r].state = "alloc"
              THEN {0} ELSE {0, EINVAL}
    /\ mgmem' = [mgmem EXCEPT ![r].page_table = "released"]
    /\ ghost' = [ghost EXCEPT ![r].unpins = @ + 1,
                              ![r].unpinned_at_refcnt = mgmem[r].refcnt,
                              ![r].uaf = @ \/ mgmem[r].state = "freed"]
    /\ um' = [um EXCEPT ![r].pc = "done", ![r].last_rc = rc]
    /\ UNCHANGED <<cb, info, module_refcnt, panic>>
    /\ UNCHANGED taskVars
    /\ UNCHANGED <<schedVars, ioctl_file, lockst>>

(* ------------------ callback_release_mapped_gpu_memory ------------------ *)

\* whether the callback has to sleep for the running DMA tasks (line 247)
CallbackMustWait(refcnt) == refcnt > 0

\* lines 232-254: detach, then either go on or register as the waiter and unlock
CallbackEnter(r) ==
    /\ Alive
    /\ cb[r].pc = "idle"
    /\ mgmem[r].state = "alloc"
    /\ mgmem[r].page_table = "pinned"
    /\ IF CallbackMustWait(mgmem[r].refcnt)
       THEN /\ mgmem' = [mgmem EXCEPT ![r].chain = "null", ![r].wait_task = "cb"]
            /\ cb' = [cb EXCEPT ![r].pc = "schedule",
                                ![r].tstate = "TASK_UNINTERRUPTIBLE",
                                ![r].wait_task_saved = mgmem[r].wait_task]
            /\ ghost' = [ghost EXCEPT ![r].cb_slept = TRUE]
       ELSE /\ mgmem' = [mgmem EXCEPT ![r].chain = "null"]
            /\ cb' = [cb EXCEPT ![r].pc = "free"]
            /\ ghost' = ghost
    /\ UNCHANGED <<um, info, module_refcnt, panic>>
    /\ UNCHANGED taskVars
    /\ UNCHANGED <<schedVars, ioctl_file, lockst>>

\* lines 256-264: schedule() returns once the thread is runnable again, then
\* the lock is taken again and refcnt == 0 is asserted
CallbackSchedule(r) ==
    /\ Alive
    /\ cb[r].pc = "schedule"
    /\ cb[r].tstate = "TASK_RUNNING"
    /\ IF mgmem[r].refcnt = 0
       THEN /\ cb' = [cb EXCEPT ![r].pc = "free"]
            /\ panic' = panic
       ELSE /\ panic' = "Assert(mgmem->refcnt == 0)"
            /\ cb' = cb
    /\ UNCHANGED <<mgmem, um, info, module_refcnt, ghost>>
    /\ UNCHANGED taskVars
    /\ UNCHANGED <<schedVars, ioctl_file, lockst>>

\* lines 270-278: __nvidia_p2p_free_page_table, kfree(mgmem), module_put
CallbackFree(r) ==
    /\ Alive
    /\ cb[r].pc = "free"
    /\ mgmem' = [mgmem EXCEPT ![r].page_table = "released", ![r].state = "freed"]
    /\ ghost' = [ghost EXCEPT ![r].unpins = @ + 1,
                              ![r].unpinned_at_refcnt = mgmem[r].refcnt,
                              ![r].freed_at_refcnt = mgmem[r].refcnt]
    /\ module_refcnt' = module_refcnt - 1
    /\ cb' = [cb EXCEPT ![r].pc = "done"]
    /\ UNCHANGED <<um, info, panic>>
    /\ UNCHANGED taskVars
    /\ UNCHANGED <<schedVars, ioctl_file, lockst>>

(* ------------------------- ioctl_info_gpu_memory ------------------------ *)

\* lines 517-519: strom_get_mapped_gpu_memory(karg.handle), or -ENOENT
InfoGet(r, uid) ==
    /\ Alive
    /\ info.pc = "idle"
    /\ IF MgmemFound(r, uid)
       THEN /\ mgmem' = MgmemRefInc(r)
            /\ info' = [pc |-> "reading", mg |-> r, rc |-> 0]
            /\ ghost' = [ghost EXCEPT ![r].acquired = TRUE]
       ELSE /\ info' = [pc |-> "idle", mg |-> r, rc |-> ENOENT]
            /\ ghost' = ForeignNote(NotFoundNote(r, uid), r, uid)
            /\ mgmem' = mgmem
    /\ UNCHANGED <<cb, um, module_refcnt, panic>>
    /\ UNCHANGED taskVars
    /\ UNCHANGED <<schedVars, ioctl_file, lockst>>

\* faulty variant of InfoPut: the return after a copy fault skips the put
InfoPut_NoPutOnFault(rc) ==
    /\ Alive
    /\ info.pc = "reading"
    /\ IF rc = EFAULT
       THEN UNCHANGED <<mgmem, cb, ghost, panic>>
       ELSE strom_put_mapped_gpu_memory(info.mg)
    /\ info' = [info EXCEPT !.pc = "idle", !.rc = rc]
    /\ UNCHANGED <<um, module_refcnt>>
    /\ UNCHANGED taskVars
    /\ UNCHANGED <<schedVars, ioctl_file, lockst>>

\* lines 521-549: the page table is read, then strom_put_mapped_gpu_memory
InfoPut(rc) ==
    /\ Alive
    /\ info.pc = "reading"
    /\ strom_put_mapped_gpu_memory(info.mg)
    /\ info' = [info EXCEPT !.pc = "idle", !.rc = rc]
    /\ UNCHANGED <<um, module_refcnt>>
    /\ UNCHANGED taskVars
    /\ UNCHANGED <<schedVars, ioctl_file, lockst>>

(* ----------------------- DMA task: create, get, put -------------------- *)

\* strom_dma_task_index(dma_task_id): the hash slot of a task id
strom_dma_task_index(id) == id % DmaTaskSlots

\* faulty variant of StickyStatus: every non-zero status is stored
StickyStatus_Overwrite(cur, dma_status) ==
    IF dma_status # 0 THEN dma_status ELSE cur

\* the first non-zero status sticks (lines 972-978)
StickyStatus(cur, dma_status) ==
    IF dma_status # 0 /\ cur = 0 THEN dma_status ELSE cur

\* wake_up_all(&strom_dma_task_waitq[hindex]): every queued waiter of the slot
\* is taken off the queue (autoremove_wake_function) and made runnable
WakeUpAll(slot) ==
    [w \in WaitIds |->
        IF waiter[w].onq /\ strom_dma_task_index(waiter[w].id) = slot
        THEN [waiter[w] EXCEPT !.onq = FALSE, !.tstate = "TASK_RUNNING"]
        ELSE waiter[w]]

\* faulty variant of DetachTask: the record goes to the failed list with its
\* region and file pointers
DetachTask_KeepsPointers(t, status) ==
    [dtask EXCEPT ![t].refcnt = 0,
                  ![t].dma_status = status,
                  ![t].where = IF status # 0 THEN "failed" ELSE "none"]

\* lines 990-1003 under the slot lock: detach, and move to the failed list
\* when a status is recorded
DetachTask(t, status) ==
    [dtask EXCEPT ![t].refcnt = 0,
                  ![t].dma_status = status,
                  ![t].where = IF status # 0 THEN "failed" ELSE "none",
                  ![t].mgmem = IF status # 0 THEN NULL ELSE @,
                  ![t].ioctl_filp = IF status # 0 THEN NULL ELSE @]

\* faulty variant of atomic_dec_and_test: true already with one reference left
atomic_dec_and_test_OneLeft(refcnt_new) == refcnt_new <= 1

\* line 980: atomic_dec_and_test(&dtask->refcnt), given the decremented value
atomic_dec_and_test(refcnt_new) == refcnt_new = 0

\* strom_put_dma_task(dtask, dma_status) up to the point where it either
\* returns or has left the critical section that detached the task
strom_put_dma_task(t, dma_status, who) ==
    LET status == StickyStatus(dtask[t].dma_status, dma_status)
        refcnt_new == dtask[t].refcnt - 1
    IN  IF ~atomic_dec_and_test(refcnt_new)
        THEN /\ dtask' = [dtask EXCEPT ![t].refcnt = refcnt_new,
                                       ![t].dma_status = status]
             /\ UNCHANGED <<tail, panic>>
        ELSE IF dma_status = 0
        THEN \* atomic_dec_and_test() hit zero with no lock held
             /\ dtask' = [dtask EXCEPT ![t].refcnt = 0]
             /\ tail' = [tail EXCEPT ![t] =
                           [pc |-> "lock", owner |-> who,
                            mgmem |-> dtask[t].mgmem, dma_status |-> 0]]
             /\ panic' = panic
        ELSE IF dtask[t].frozen
        THEN /\ dtask' = DetachTask(t, status)
             /\ tail' = [tail EXCEPT ![t] =
                           [pc |-> "wake", owner |-> who,
                            mgmem |-> dtask[t].mgmem, dma_status |-> status]]
             /\ panic' = panic
        ELSE /\ panic' = "Assert(dtask->frozen)"
             /\ dtask' = [dtask EXCEPT ![t].refcnt = 0, ![t].dma_status = status]
             /\ tail' = tail

\* lines 987-1004: the zero-refcount branch takes the slot lock
PutTailLock(t) ==
    /\ Alive
    /\ tail[t].pc = "lock"
    /\ IF dtask[t].frozen
       THEN /\ dtask' = DetachTask(t, dtask[t].dma_status)
            /\ tail' = [tail EXCEPT ![t].pc = "wake",
                                    ![t].dma_status = dtask[t].dma_status]
            /\ panic' = panic
       ELSE /\ panic' = "Assert(dtask->frozen)"
            /\ UNCHANGED <<dtask, tail>>
    /\ UNCHANGED <<mgmem, cb, um, info, module_refcnt, ghost, sub, waiter, tghost>>
    /\ UNCHANGED <<schedVars, ioctl_file, lockst>>

\* line 1006: wake_up_all
PutTailWake(t) ==
    /\ Alive
    /\ tail[t].pc = "wake"
    /\ waiter' = WakeUpAll(strom_dma_task_index(t))
    /\ tail' = [tail EXCEPT ![t].pc = "release"]
    /\ UNCHANGED <<mgmem, cb, um, info, module_refcnt, panic, ghost, dtask, sub, tghost>>
    /\ UNCHANGED <<schedVars, ioctl_file, lockst>>

\* faulty variant of PutTailRelease: the reference on the mapped region is kept
PutTailRelease_KeepsMapping(t) ==
    /\ Alive
    /\ tail[t].pc = "release"
    /\ IF tail[t].dma_status = 0
       THEN /\ dtask' = [dtask EXCEPT ![t].mem = "freed"]
            /\ tghost' = [tghost EXCEPT ![t].kfrees = @ + 1]
       ELSE UNCHANGED <<dtask, tghost>>
    /\ tail' = [tail EXCEPT ![t].pc = "done"]
    /\ ioctl_file' = [ioctl_file EXCEPT !.f_count = @ - 1]
    /\ UNCHANGED <<mgmem, cb, panic, ghost, um, info, module_refcnt, sub, waiter>>
    /\ UNCHANGED <<schedVars, lockst>>

\* lines 1009-1013: kfree(dtask) when no error, then the mapping is put and
\* the reference on the ioctl file is dropped
PutTailRelease(t) ==
    /\ Alive
    /\ tail[t].pc = "release"
    /\ dtask' = IF tail[t].dma_status = 0
                THEN [dtask EXCEPT ![t].mem = "freed"] ELSE dtask
    /\ tghost' = [tghost EXCEPT
                     ![t].kfrees = IF tail[t].dma_status = 0 THEN @ + 1 ELSE @,
                     ![t].mgmem_puts = @ + 1,
                     ![t].data_fputs = @ + 1]
    /\ strom_put_mapped_gpu_memory(tail[t].mgmem)
    /\ tail' = [tail EXCEPT ![t].pc = "done"]
    /\ ioctl_file' = [ioctl_file EXCEPT !.f_count = @ - 1]
    /\ UNCHANGED <<um, info, module_refcnt, sub, waiter>>
    /\ UNCHANGED <<schedVars, lockst>>

\* strom_get_dma_task(dtask): Assert(!frozen), atomic_inc_return, Assert(> 1)
strom_get_dma_task(t) ==
    IF dtask[t].frozen
    THEN /\ panic' = "Assert(!dtask->frozen)"
         /\ dtask' = dtask
    ELSE IF dtask[t].refcnt + 1 > 1
    THEN /\ dtask' = [dtask EXCEPT ![t].refcnt = @ + 1]
         /\ panic' = panic
    ELSE /\ panic' = "Assert(refcnt_new > 1)"
         /\ dtask' = [dtask EXCEPT ![t].refcnt = @ + 1]

(* -------------------- ioctl_memcpy_ssd2gpu_writeback -------------------- *)

\* faulty variant of NewDmaTask: the record is created frozen
NewDmaTask_Frozen(r) ==
    [mem |-> "alloc", where |-> "running", refcnt |-> 1,
     frozen |-> TRUE, mgmem |-> r, dma_status |-> 0,
     ioctl_filp |-> Filp]

\* lines 907-934: the record kzalloc gives, refcnt 1, not frozen, chained in
\* the running list of its slot
NewDmaTask(r) ==
    [mem |-> "alloc", where |-> "running", refcnt |-> 1,
     frozen |-> FALSE, mgmem |-> r, dma_status |-> 0,
     ioctl_filp |-> Filp]

\* strom_create_dma_task(handle, fdesc, ioctl_filp), lines 898-937 and 944
strom_create_dma_task(t, r, uid) ==
    /\ Alive
    /\ sub[t].pc = "idle"
    /\ ioctl_file.fd_open
    /\ dtask[t].mem = "unalloc"
    /\ \A q \in Tasks : q < t => dtask[q].mem # "unalloc"
    /\ IF MgmemFound(r, uid)
       THEN /\ mgmem' = MgmemRefInc(r)
            /\ ghost' = [ghost EXCEPT ![r].acquired = TRUE]
            /\ dtask' = [dtask EXCEPT ![t] = NewDmaTask(r)]
            /\ ioctl_file' = [ioctl_file EXCEPT !.f_count = @ + 1]
            /\ tghost' = [tghost EXCEPT ![t].created_filp = Filp]
            /\ sub' = [sub EXCEPT ![t].pc = "sched", ![t].retval = 0, ![t].handle = r]
       ELSE /\ sub' = [sub EXCEPT ![t].retval = ENOENT, ![t].handle = r]
            /\ ghost' = NotFoundNote(r, uid)
            /\ UNCHANGED <<mgmem, dtask, ioctl_file, tghost>>
    /\ UNCHANGED <<cb, um, info, module_refcnt, panic, tail, waiter>>
    /\ UNCHANGED <<schedVars, lockst>>

\* one asynchronous read request handed to the NVMe queue: the request takes
\* a reference on the task with strom_get_dma_task
SubmitDma(t) ==
    /\ Alive
    /\ sub[t].pc = "sched"
    /\ sub[t].nsub < MaxXfers
    /\ strom_get_dma_task(t)
    /\ sub' = [sub EXCEPT ![t].nsub = @ + 1, ![t].inflight = @ + 1]
    /\ UNCHANGED <<mgmem, cb, um, info, module_refcnt, ghost, tail, waiter, tghost>>
    /\ UNCHANGED <<schedVars, ioctl_file, lockst>>

\* the completion handler of one request: strom_put_dma_task(dtask, status)
DmaComplete(t, status) ==
    /\ Alive
    /\ sub[t].inflight > 0
    /\ sub' = [sub EXCEPT ![t].inflight = @ - 1]
    /\ strom_put_dma_task(t, status, "completion")
    /\ tghost' = [tghost EXCEPT ![t].ignored =
                     @ \/ (status # 0 /\ dtask[t].dma_status \notin {0, status})]
    /\ UNCHANGED <<mgmem, cb, um, info, module_refcnt, ghost, waiter>>
    /\ UNCHANGED <<schedVars, ioctl_file, lockst>>

\* what memcpy_ssd2gpu_writeback returns: success, a request that does not fit
\* the mapped region (line 1391), a failed block lookup or DMA submission
SubmitRetvals == {0, ERANGE, EIO}

\* faulty variant of SubmitterFreeze: the ioctl goes on to its put without
\* setting the frozen flag
SubmitterFreeze_NotFrozen(t, retval) ==
    /\ Alive
    /\ sub[t].pc = "sched"
    /\ sub' = [sub EXCEPT ![t].pc = "put", ![t].retval = retval]
    /\ UNCHANGED <<mgmem, cb, um, info, module_refcnt, panic, ghost, dtask, tail, waiter, tghost>>
    /\ UNCHANGED <<schedVars, ioctl_file, lockst>>

\* lines 1518-1523: memcpy_ssd2gpu_writeback returns retval, frozen = true
SubmitterFreeze(t, retval) ==
    /\ Alive
    /\ sub[t].pc = "sched"
    /\ dtask' = [dtask EXCEPT ![t].frozen = TRUE]
    /\ sub' = [sub EXCEPT ![t].pc = "put", ![t].retval = retval]
    /\ UNCHANGED <<mgmem, cb, um, info, module_refcnt, panic, ghost, tail, waiter, tghost>>
    /\ UNCHANGED <<schedVars, ioctl_file, lockst>>

\* line 1525: strom_put_dma_task(dtask, 0)
SubmitterPut(t) ==
    /\ Alive
    /\ sub[t].pc = "put"
    /\ strom_put_dma_task(t, 0, "submitter")
    /\ sub' = [sub EXCEPT ![t].pc = "after_put"]
    /\ UNCHANGED <<mgmem, cb, um, info, module_refcnt, ghost, waiter, tghost>>
    /\ UNCHANGED <<schedVars, ioctl_file, lockst>>

\* lines 1527-1540: the results are copied out, and on any error the thread
\* waits for the task with TASK_UNINTERRUPTIBLE
SubmitterAfterPut(t, fault) ==
    /\ Alive
    /\ sub[t].pc = "after_put"
    /\ ~(tail[t].owner = "submitter" /\ tail[t].pc \in {"lock", "wake", "release"})
    /\ LET retval == IF sub[t].retval = 0 /\ fault THEN EFAULT ELSE sub[t].retval
       IN  IF retval # 0
           THEN /\ sub' = [sub EXCEPT ![t].pc = "wait", ![t].retval = retval]
                /\ waiter' = [waiter EXCEPT ![SubmitterWaiter(t)] =
                                [pc |-> "failed_rcu", id |-> t, retval |-> 0,
                                 status |-> 0, onq |-> FALSE,
                                 tstate |-> "TASK_RUNNING",
                                 task_state |-> "TASK_UNINTERRUPTIBLE",
                                 sig |-> FALSE]]
           ELSE /\ sub' = [sub EXCEPT ![t].pc = "done"]
                /\ waiter' = waiter
    /\ UNCHANGED <<mgmem, cb, um, info, module_refcnt, panic, ghost, dtask, tail, tghost>>
    /\ UNCHANGED <<schedVars, ioctl_file, lockst>>

\* lines 1541-1543: the ioctl returns once its wait is over
SubmitterReturn(t) ==
    /\ Alive
    /\ sub[t].pc = "wait"
    /\ waiter[SubmitterWaiter(t)].pc = "done"
    /\ sub' = [sub EXCEPT ![t].pc = "done"]
    /\ UNCHANGED <<mgmem, cb, um, info, module_refcnt, panic, ghost, dtask, tail, waiter, tghost>>
    /\ UNCHANGED <<schedVars, ioctl_file, lockst>>

(* ----------------------- strom_memcpy_ssd2gpu_wait ---------------------- *)

\* finish_wait(): off the queue, runnable
FinishWait(w, retval) ==
    [waiter EXCEPT ![w].pc = "done", ![w].retval = retval,
                   ![w].onq = FALSE, ![w].tstate = "TASK_RUNNING"]

\* ioctl_memcpy_ssd2gpu_wait, lines 1226-1229: a wait on any task id
WaitStart(w, id) ==
    /\ Alive
    /\ w \in UserWaiters
    /\ ioctl_file.fd_open
    /\ waiter[w].pc \in {"idle", "done"}
    /\ waiter' = [waiter EXCEPT ![w] =
                    [pc |-> "failed_rcu", id |-> id, retval |-> 0, status |-> 0,
                     onq |-> FALSE, tstate |-> "TASK_RUNNING",
                     task_state |-> "TASK_INTERRUPTIBLE", sig |-> FALSE]]
    /\ UNCHANGED <<mgmem, cb, um, info, module_refcnt, panic, ghost, dtask, sub, tail, tghost>>
    /\ UNCHANGED <<schedVars, ioctl_file, lockst>>

\* lines 1155-1169 with no lock held: the walk of the failed list under
\* rcu_read_lock; a record found there sends the thread to the slot lock
WaitCheckRcu(w) ==
    /\ Alive
    /\ waiter[w].pc = "failed_rcu"
    /\ waiter' = [waiter EXCEPT ![w].pc =
                     IF dtask[waiter[w].id].where = "failed"
                     THEN "failed_locked" ELSE "running_rcu"]
    /\ UNCHANGED <<mgmem, cb, um, info, module_refcnt, panic, ghost, dtask, sub, tail, tghost>>
    /\ UNCHANGED <<schedVars, ioctl_file, lockst>>

\* faulty variant of WaitCheckRunning: the interrupted wait unchains the task
WaitCheckRunning_InterruptUnchains(w) ==
    /\ Alive
    /\ waiter[w].pc = "running_rcu"
    /\ LET id == waiter[w].id
       IN  /\ IF dtask[id].where # "running"
              THEN waiter' = FinishWait(w, 0) /\ dtask' = dtask
              ELSE IF waiter[w].sig
              THEN /\ waiter' = FinishWait(w, EINTR)
                   /\ dtask' = [dtask EXCEPT ![id].where = "none"]
              ELSE waiter' = [waiter EXCEPT ![w].pc = "prepare"] /\ dtask' = dtask
           /\ tghost' = [tghost EXCEPT ![id].missed =
                            @ \/ dtask[id].where = "failed"]
    /\ UNCHANGED <<mgmem, cb, um, info, module_refcnt, panic, ghost, sub, tail>>
    /\ UNCHANGED <<schedVars, ioctl_file, lockst>>

\* lines 1181-1202, still with no lock held: the walk of the running list,
\* later than the walk of the failed list, then the decision to return or to
\* sleep
WaitCheckRunning(w) ==
    /\ Alive
    /\ waiter[w].pc = "running_rcu"
    /\ LET id == waiter[w].id
       IN  /\ IF dtask[id].where # "running"
              THEN waiter' = FinishWait(w, 0)
              ELSE IF waiter[w].sig
              THEN waiter' = FinishWait(w, EINTR)
              ELSE waiter' = [waiter EXCEPT ![w].pc = "prepare"]
           /\ tghost' = [tghost EXCEPT ![id].missed =
                            @ \/ dtask[id].where = "failed"]
    /\ UNCHANGED <<mgmem, cb, um, info, module_refcnt, panic, ghost, dtask, sub, tail>>
    /\ UNCHANGED <<schedVars, ioctl_file, lockst>>

\* faulty variant of WaitCheckLocked: what the lock-free walk found is used without
\* walking the failed list again under the lock
WaitCheckLocked_NoRecheck(w) ==
    /\ panic = "none"
    /\ waiter[w].pc = "failed_locked"
    /\ dtask' = [dtask EXCEPT ![waiter[w].id].where = "none"]
    /\ waiter' = [waiter EXCEPT ![w].pc = "kfree",
                                ![w].status = dtask[waiter[w].id].dma_status]
    /\ UNCHANGED <<mgmem, cb, um, info, module_refcnt, panic, ghost, sub, tail, tghost>>
    /\ UNCHANGED <<schedVars, ioctl_file, lockst>>

\* lines 1167-1173 and 1181-1202 after "goto retry" with the slot lock held:
\* the record is taken off the failed list, or both lists are walked again
WaitCheckLocked(w) ==
    /\ Alive
    /\ waiter[w].pc = "failed_locked"
    /\ LET id == waiter[w].id
       IN  IF dtask[id].where = "failed"
           THEN /\ dtask' = [dtask EXCEPT ![id].where = "none"]
                /\ waiter' = [waiter EXCEPT ![w].pc = "kfree",
                                            ![w].status = dtask[id].dma_status]
                /\ tghost' = tghost
           ELSE /\ dtask' = dtask
                /\ tghost' = [tghost EXCEPT ![id].lost_race = TRUE]
                /\ IF dtask[id].where # "running"
                   THEN waiter' = FinishWait(w, 0)
                   ELSE IF waiter[w].sig
                   THEN waiter' = FinishWait(w, EINTR)
                   ELSE waiter' = [waiter EXCEPT ![w].pc = "prepare"]
    /\ UNCHANGED <<mgmem, cb, um, info, module_refcnt, panic, ghost, sub, tail>>
    /\ UNCHANGED <<schedVars, ioctl_file, lockst>>

\* lines 1174-1177 and 1208: kfree(dtask), retval = -EIO
WaitKfree(w) ==
    /\ Alive
    /\ waiter[w].pc = "kfree"
    /\ dtask' = [dtask EXCEPT ![waiter[w].id].mem = "freed"]
    /\ tghost' = [tghost EXCEPT ![waiter[w].id].kfrees = @ + 1,
                                ![waiter[w].id].eio_returns = @ + 1]
    /\ waiter' = FinishWait(w, EIO)
    /\ UNCHANGED <<mgmem, cb, um, info, module_refcnt, panic, ghost, sub, tail>>
    /\ UNCHANGED <<schedVars, ioctl_file, lockst>>

\* line 1204: prepare_to_wait(waitq, &__wait, task_state)
WaitPrepare(w) ==
    /\ Alive
    /\ waiter[w].pc = "prepare"
    /\ waiter' = [waiter EXCEPT ![w].pc = "schedule", ![w].onq = TRUE,
                                ![w].tstate = waiter[w].task_state]
    /\ UNCHANGED <<mgmem, cb, um, info, module_refcnt, panic, ghost, dtask, sub, tail, tghost>>
    /\ UNCHANGED <<schedVars, ioctl_file, lockst>>

\* line 1205: schedule() returns when the thread is runnable, or at once when
\* it sleeps interruptibly with a signal pending; then the loop starts over
WaitSchedule(w) ==
    /\ Alive
    /\ waiter[w].pc = "schedule"
    /\ \/ waiter[w].tstate = "TASK_RUNNING"
       \/ waiter[w].tstate = "TASK_INTERRUPTIBLE" /\ waiter[w].sig
    /\ waiter' = [waiter EXCEPT ![w].pc = "failed_rcu", ![w].tstate = "TASK_RUNNING"]
    /\ UNCHANGED <<mgmem, cb, um, info, module_refcnt, panic, ghost, dtask, sub, tail, tghost>>
    /\ UNCHANGED <<schedVars, ioctl_file, lockst>>

\* a signal is sent to a thread that is inside the wait ioctl
SignalArrives(w) ==
    /\ Alive
    /\ w \in UserWaiters
    /\ waiter[w].pc \notin {"idle", "done"}
    /\ ~waiter[w].sig
    /\ waiter' = [waiter EXCEPT ![w].sig = TRUE,
                                ![w].tstate = IF @ = "TASK_INTERRUPTIBLE"
                                              THEN "TASK_RUNNING" ELSE @]
    /\ UNCHANGED <<mgmem, cb, um, info, module_refcnt, panic, ghost, dtask, sub, tail, tghost>>
    /\ UNCHANGED <<schedVars, ioctl_file, lockst>>

(* --------------------- the file of /proc/nvme-strom --------------------- *)

\* close(2) on the descriptor: the descriptor table drops its reference, and
\* no ioctl can be started on the file any more
CloseFile ==
    /\ Alive
    /\ ioctl_file.fd_open
    /\ ioctl_file' = [ioctl_file EXCEPT !.fd_open = FALSE, !.f_count = @ - 1]
    /\ UNCHANGED <<mgmem, cb, um, info, module_refcnt, panic, ghost, taskVars>>
    /\ UNCHANGED <<schedVars, lockst>>

\* strom_proc_release(inode, filp), called once when the last reference on the
\* file is gone (the descriptor is closed, every task created on it has called
\* fput, no ioctl is running on it): under each slot lock, the records of the
\* failed list whose ioctl_filp is this file are unchained and freed
strom_proc_release(filp) ==
    /\ Alive
    /\ ioctl_file.f_count = 0
    /\ ~ioctl_file.released
    /\ \A t \in Tasks : sub[t].pc \in {"idle", "done"}
    /\ \A w \in UserWaiters : waiter[w].pc \in {"idle", "done"}
    /\ LET hit == {t \in Tasks : dtask[t].where = "failed" /\ dtask[t].ioctl_filp = filp}
       IN  /\ dtask' = [t \in Tasks |->
                          IF t \in hit
                          THEN [dtask[t] EXCEPT !.where = "none", !.mem = "freed"]
                          ELSE dtask[t]]
           /\ tghost' = [t \in Tasks |->
                           IF t \in hit
                           THEN [tghost[t] EXCEPT !.kfrees = @ + 1]
                           ELSE tghost[t]]
    /\ ioctl_file' = [ioctl_file EXCEPT !.released = TRUE]
    /\ UNCHANGED <<mgmem, cb, um, info, module_refcnt, panic, ghost, sub, tail, waiter>>
    /\ UNCHANGED <<schedVars, lockst>>

(* ------------------------- the request scheduler ------------------------ *)
\* One batch of ioctl(STROM_IOCTL__MEMCPY_SSD2GPU_WRITEBACK) from the entry of
\* memcpy_ssd2gpu_writeback to its return.  The life of the task record around
\* it (create, freeze, put, wait) is the task registry above; here the task is
\* the block size, the block limit and the pending run it carries.

\* chunks one batch may carry
MaxChunks == 5
\* first device block of the file, and the blocks the fragmented layout skips
ExtentStart == 1000
GapBlocks == 64

PAGE_CACHE_SHIFT == 12
PAGE_CACHE_SIZE == 4096
STROM_DMA_SSD2GPU_MAXLEN == 128 * 1024
\* a slot of kmalloc'ed memory nothing was stored to
UNSET == "unset"

Shr(x, s) == x \div (2 ^ s)
Shl(x, s) == x * (2 ^ s)
Min(a, b) == IF a < b THEN a ELSE b

\* what ioctl_map_gpu_memory was asked to map: the offset of vaddress in its
\* 64KB boundary, the length, and the page size the driver reported
Mappings ==
    { [map_offset |-> 0, length |-> 1024 * 1024, gpu_page_shift |-> 16],
      [map_offset |-> 4096, length |-> 128 * 1024, gpu_page_shift |-> 12] }
\* i_sb->s_blocksize_bits; file_is_supported_nvme refuses blocks above a page
BlockShifts == {10, 12}
\* how the filesystem laid the file out on the device
Layouts == {"contig", "gap"}
\* the fragmented layout has its hole in front of this file position
GapFpos == 12 * PAGE_CACHE_SIZE
\* the page cache of the file: pages first .. first+count-1 are resident,
\* all of them dirty or all of them clean; count = 0 is a cold cache
CacheImages ==
    { [first |-> 0, count |-> 0, dirty |-> FALSE],
      [first |-> 16, count |-> 8, dirty |-> TRUE],
      [first |-> 0, count |-> 4, dirty |-> FALSE],
      [first |-> 0, count |-> 5, dirty |-> FALSE],
      [first |-> 0, count |-> 1, dirty |-> TRUE],
      [first |-> 0, count |-> 48, dirty |-> TRUE] }
\* i_size_read(filp->f_inode)
FileSizes == {96 * 1024, 1024 * 1024}
\* karg->offset, karg->chunk_sz, karg->relseg_sz and the chunk id lists offered
Offsets == {0, 128 * 1024, 928 * 1024}
ChunkSizes == {0, 6 * 1024, PAGE_CACHE_SIZE, 32 * 1024, 132 * 1024}
RelSegs == {0, 2}
ChunkIdLists(n) ==
    { [p \in 0..(n - 1) |-> p],
      [p \in 0..(n - 1) |-> p + 1],
      [p \in 0..(n - 1) |-> n - 1 - p] }

\* find_lock_page(filp->f_mapping, k): "absent" is NULL
PageState(cache, k) ==
    IF k >= cache.first /\ k < cache.first + cache.count
    THEN (IF cache.dirty THEN "dirty" ELSE "clean")
    ELSE "absent"

\* strom_get_block(): the device block behind file block iblock
strom_get_block(w, iblock) ==
    IF w.layout = "gap" /\ Shl(iblock, w.blocksz_shift) >= GapFpos
    THEN ExtentStart + iblock + GapBlocks
    ELSE ExtentStart + iblock

\* line 925
MaxNblocks(blocksz_shift) == Shr(STROM_DMA_SSD2GPU_MAXLEN, blocksz_shift)

\* lines 1400-1403
ChunkFpos(chunk_id, relseg_sz, chunk_sz) ==
    IF relseg_sz = 0 THEN chunk_id * chunk_sz
    ELSE (chunk_id % relseg_sz) * chunk_sz

\* lines 1408-1414: the loop over the n pages of a chunk from file page k
RECURSIVE ChunkScore(_, _, _, _)
RECURSIVE ChunkScore_DirtyCountsOne(_, _, _, _)
\* faulty variant of ChunkScore: a dirty page counts like a clean one
ChunkScore_DirtyCountsOne(cache, k, n, threshold) ==
    IF n = 0 THEN 0
    ELSE (IF PageState(cache, k) = "absent" THEN 0 ELSE 1)
         + ChunkScore_DirtyCountsOne(cache, k + 1, n - 1, threshold)

ChunkScore(cache, k, n, threshold) ==
    IF n = 0 THEN 0
    ELSE (CASE PageState(cache, k) = "dirty" -> threshold + 1
            [] PageState(cache, k) = "clean" -> 1
            [] OTHER -> 0)
         + ChunkScore(cache, k + 1, n - 1, threshold)

\* faulty variant of WritebackBufferOffset: the copies fill wb_buffer from
\* its start
WritebackBufferOffset_FromFront(chunk_sz, nr_chunks, nr_ram2gpu) ==
    chunk_sz * (nr_ram2gpu - 1)

\* lines 1423-1424: the byte offset in karg->wb_buffer a chunk is copied to,
\* nr_ram2gpu counting this chunk
WritebackBufferOffset(chunk_sz, nr_chunks, nr_ram2gpu) ==
    chunk_sz * (nr_chunks - nr_ram2gpu)

\* faulty variant of WritebackSlot: the written-back chunks are listed from the
\* front
WritebackSlot_FromFront(nr_chunks, nr_ram2gpu) == nr_ram2gpu - 1

\* lines 1422-1430: the slot of wb_buffer and of chunk_ids_out that the
\* nr_ram2gpu-th written-back chunk takes, counted from the back
WritebackSlot(nr_chunks, nr_ram2gpu) == nr_chunks - nr_ram2gpu

\* faulty variant of RouteWriteback: no chunk is written back
RouteWriteback_Never(score, threshold) == FALSE

\* line 1416
RouteWriteback(score, threshold) == score > threshold

\* faulty variant of ChunkDestAdvance: a direct chunk leaves dest_offset where it was
ChunkDestAdvance_Stay(dest_offset, chunk_sz) == dest_offset

\* line 1441
ChunkDestAdvance(dest_offset, chunk_sz) == dest_offset + chunk_sz

\* faulty variant of MergePossible: a run stops one block short of max_nblocks
MergePossible_BelowLimit(t, blocknr, nr_blocks, curr_offset) ==
    /\ t.nr_blocks > 0
    /\ t.nr_blocks + nr_blocks < t.max_nblocks
    /\ t.src_block + t.nr_blocks = blocknr
    /\ t.dest_offset + t.nr_blocks * t.blocksz = curr_offset

\* lines 1332-1336
MergePossible(t, blocknr, nr_blocks, curr_offset) ==
    /\ t.nr_blocks > 0
    /\ t.nr_blocks + nr_blocks <= t.max_nblocks
    /\ t.src_block + t.nr_blocks = blocknr
    /\ t.dest_offset + t.nr_blocks * t.blocksz = curr_offset

\* lines 1101-1116: the scatter list over the device pages, entry by entry
RECURSIVE SgLoop(_, _, _, _, _)
SgLoop(i, entries, offset, total_nbytes, gpu_page_sz) ==
    IF i < entries /\ total_nbytes # 0
    THEN LET length == Min(total_nbytes, gpu_page_sz - offset)
         IN  SgLoop(i + 1, entries, 0, total_nbytes - length, gpu_page_sz)
    ELSE [nents |-> i, left |-> total_nbytes]

SgOf(t, w) ==
    SgLoop(0, w.entries, t.dest_offset % (2 ^ w.gpu_page_shift),
           Shl(t.nr_blocks, t.blocksz_shift), 2 ^ w.gpu_page_shift)

\* what submit_ssd2gpu_memcpy returns for the pending run of t; env is ENOMEM
\* when nvme_alloc_iod fails, else what nvme_submit_async_read_cmd returns
submit_ssd2gpu_memcpy(t, w, env) ==
    LET total_nbytes == Shl(t.nr_blocks, t.blocksz_shift)
    IN  IF total_nbytes = 0 \/ total_nbytes > STROM_DMA_SSD2GPU_MAXLEN THEN EINVAL
        ELSE IF \/ t.dest_offset < w.map_offset
                \/ t.dest_offset + total_nbytes > w.map_offset + w.map_length THEN ERANGE
        ELSE IF env = ENOMEM THEN ENOMEM
        ELSE IF SgOf(t, w).left # 0 THEN EINVAL
        ELSE env

\* the request submit_ssd2gpu_memcpy hands to nvme_submit_async_read_cmd
XferOf(t, w) ==
    [dest_offset |-> t.dest_offset, src_block |-> t.src_block,
     nr_blocks |-> t.nr_blocks, nents |-> SgOf(t, w).nents]

\* where the loop of line 1393 goes after chunk i
AfterChunk(i) == IF i + 1 < karg.nr_chunks THEN "chunk" ELSE "flush"

\* faulty variant of DestRangeFits: the batch is not checked against the
\* region before the chunk loop
DestRangeFits_Unchecked(dest_offset, nbytes, map_length) == TRUE

\* line 1389: the whole batch ends inside the mapped region
DestRangeFits(dest_offset, nbytes, map_length) == dest_offset + nbytes <= map_length

\* lines 1504-1520 and 1376-1392: the task is set up, the counters are zeroed,
\* the sanity checks of memcpy_ssd2gpu_writeback run
ioctl_memcpy_ssd2gpu_writeback(m, bs, lay, cache, isz, offset, n, chunk_sz, relseg_sz, ids) ==
    /\ LET map_length == m.map_offset + m.length
           dest_offset == m.map_offset + offset
           rc == IF \/ chunk_sz % PAGE_CACHE_SIZE # 0
                    \/ chunk_sz < PAGE_CACHE_SIZE
                    \/ chunk_sz > STROM_DMA_SSD2GPU_MAXLEN THEN EINVAL
                 ELSE IF ~DestRangeFits(dest_offset, n * chunk_sz, map_length) THEN ERANGE
                 ELSE 0
       IN  /\ world' = [map_offset |-> m.map_offset, map_length |-> map_length,
                        gpu_page_shift |-> m.gpu_page_shift,
                        entries |-> Shr(map_length + 2 ^ m.gpu_page_shift - 1,
                                        m.gpu_page_shift),
                        blocksz_shift |-> bs, layout |-> lay, cache |-> cache,
                        i_size |-> isz]
           /\ karg' = [offset |-> offset, nr_chunks |-> n, chunk_sz |-> chunk_sz,
                       relseg_sz |-> relseg_sz, nr_ram2gpu |-> 0, nr_ssd2gpu |-> 0,
                       nr_dma_submit |-> 0, nr_dma_blocks |-> 0]
           /\ chunk_ids_in' = ids
           /\ chunk_ids_out' = [p \in 0..(n - 1) |-> UNSET]
           /\ wb_buffer' = [p \in 0..(n - 1) |-> UNSET]
           /\ wtask' = [blocksz |-> 2 ^ bs, blocksz_shift |-> bs,
                        max_nblocks |-> MaxNblocks(bs),
                        dest_offset |-> 0, src_block |-> 0, nr_blocks |-> 0]
           /\ wb' = [wb EXCEPT !.pc = IF rc # 0 THEN "done"
                                      ELSE IF n > 0 THEN "chunk" ELSE "flush",
                               !.retval = rc, !.dest_offset = dest_offset]
    /\ UNCHANGED <<xfers, mgmem, cb, um, info, module_refcnt, panic, ghost, taskVars, ioctl_file, lockst>>

\* a process calls the ioctl: the mapping it names, the file it reads and the
\* state of that file's page cache are what the call finds
WritebackEnter ==
    /\ Alive
    /\ wb.pc = "idle"
    /\ \E m \in Mappings, bs \in BlockShifts, lay \in Layouts, cache \in CacheImages,
          isz \in FileSizes, offset \in Offsets, n \in 0..MaxChunks,
          chunk_sz \in ChunkSizes, relseg_sz \in RelSegs :
          \E ids \in ChunkIdLists(n) :
             ioctl_memcpy_ssd2gpu_writeback(m, bs, lay, cache, isz, offset, n,
                                            chunk_sz, relseg_sz, ids)

\* lines 1395-1431 and 1445-1463: the chunk's file position, its score and its
\* route; a chunk to write back is copied to the user buffer here (wbrc is
\* what __memcpy_ssd2gpu_writeback returns), a chunk to transfer enters the
\* page loop of __memcpy_ssd2gpu_submit_dma
ChunkBegin(wbrc) ==
    /\ Alive
    /\ wb.pc = "chunk"
    /\ LET chunk_id == chunk_ids_in[wb.i]
           nr_pages == Shr(karg.chunk_sz, PAGE_CACHE_SHIFT)
           threshold == nr_pages \div 2
           fpos == ChunkFpos(chunk_id, karg.relseg_sz, karg.chunk_sz)
           k == Shr(fpos, PAGE_CACHE_SHIFT)
           score == ChunkScore(world.cache, k, nr_pages, threshold)
           slot == WritebackSlot(karg.nr_chunks, karg.nr_ram2gpu + 1)
       IN  IF fpos % PAGE_CACHE_SIZE # 0
           THEN /\ wbrc = 0
                /\ panic' = "Assert((fpos & (PAGE_CACHE_SIZE - 1)) == 0)"
                /\ UNCHANGED <<schedVars, lockst>>
           ELSE IF fpos > world.i_size
           THEN /\ wbrc = 0
                /\ wb' = [wb EXCEPT !.pc = "done", !.retval = ERANGE,
                                    !.chunk_id = chunk_id, !.fpos = fpos]
                /\ UNCHANGED <<panic, karg, chunk_ids_out, wb_buffer>>
           ELSE IF RouteWriteback(score, threshold)
           THEN \* read_mapping_page can fail only for a page that is not cached
                /\ wbrc = EIO =>
                      \E j \in 0..(nr_pages - 1) : PageState(world.cache, k + j) = "absent"
                /\ karg' = [karg EXCEPT !.nr_ram2gpu = @ + 1]
                /\ wb_buffer' = [wb_buffer EXCEPT
                                    ![WritebackBufferOffset(karg.chunk_sz, karg.nr_chunks,
                                                            karg.nr_ram2gpu + 1)
                                         \div karg.chunk_sz] =
                                    IF wbrc = 0 THEN chunk_id ELSE "partial"]
                /\ chunk_ids_out' = [chunk_ids_out EXCEPT ![slot] = chunk_id]
                /\ wb' = [wb EXCEPT !.pc = IF wbrc # 0 THEN "done" ELSE AfterChunk(wb.i),
                                    !.i = @ + 1, !.retval = wbrc, !.score = score,
                                    !.chunk_id = chunk_id, !.fpos = fpos,
                                    !.last_op = "writeback"]
                /\ UNCHANGED panic
           ELSE /\ wbrc = 0
                /\ wb' = [wb EXCEPT !.pc = "page", !.j = 0, !.score = score,
                                    !.chunk_id = chunk_id, !.fpos = fpos,
                                    !.curr_offset = wb.dest_offset]
                /\ UNCHANGED <<panic, karg, chunk_ids_out, wb_buffer>>
    /\ UNCHANGED <<world, chunk_ids_in, wtask, xfers>>
    /\ UNCHANGED <<mgmem, cb, um, info, module_refcnt, ghost, taskVars, ioctl_file, lockst>>

\* lines 1315-1359, one turn of the loop: the block of the page is looked up
\* (gbrc is what strom_get_block returns) and merged into the pending run, or
\* the pending run is submitted (env decides what the allocation and the NVMe
\* driver answer) and a new run starts.  The turn that ends the loop also runs
\* lines 1440-1463 of the caller.
SubmitPage(gbrc, env) ==
    /\ Alive
    /\ wb.pc = "page"
    /\ LET nr_pages == Shr(karg.chunk_sz, PAGE_CACHE_SHIFT)
           blocknr == strom_get_block(world, Shr(wb.fpos, wtask.blocksz_shift))
           nr_blocks == Shr(PAGE_CACHE_SIZE, wtask.blocksz_shift)
           merge == gbrc = 0 /\ MergePossible(wtask, blocknr, nr_blocks, wb.curr_offset)
           flush == gbrc = 0 /\ ~merge /\ wtask.nr_blocks > 0
           retval == IF gbrc # 0 THEN gbrc
                     ELSE IF flush THEN submit_ssd2gpu_memcpy(wtask, world, env)
                     ELSE 0
           last == retval # 0 \/ wb.j + 1 = nr_pages
       IN  /\ gbrc # 0 => env = 0
           /\ env # 0 => flush
           /\ wtask' = IF merge THEN [wtask EXCEPT !.nr_blocks = @ + nr_blocks]
                       ELSE IF retval # 0 THEN wtask
                       ELSE [wtask EXCEPT !.dest_offset = wb.curr_offset,
                                          !.src_block = blocknr,
                                          !.nr_blocks = nr_blocks]
           /\ xfers' = IF flush /\ retval = 0
                       THEN Append(xfers, XferOf(wtask, world)) ELSE xfers
           /\ karg' = [karg EXCEPT
                          !.nr_dma_submit = IF flush THEN @ + 1 ELSE @,
                          !.nr_dma_blocks = IF flush THEN @ + wtask.nr_blocks ELSE @,
                          !.nr_ssd2gpu = IF last THEN @ + 1 ELSE @]
           /\ chunk_ids_out' = IF last
                               THEN [chunk_ids_out EXCEPT ![karg.nr_ssd2gpu] = wb.chunk_id]
                               ELSE chunk_ids_out
           /\ wb' = [wb EXCEPT
                        !.last_op = IF gbrc # 0 THEN "get_block_failed"
                                    ELSE IF merge THEN "merge"
                                    ELSE IF ~flush THEN "start"
                                    ELSE IF retval = 0 THEN "flush_start"
                                    ELSE "flush_failed",
                        !.j = @ + 1,
                        !.fpos = @ + PAGE_CACHE_SIZE,
                        !.curr_offset = @ + PAGE_CACHE_SIZE,
                        !.retval = retval,
                        !.dest_offset = IF last THEN ChunkDestAdvance(@, karg.chunk_sz) ELSE @,
                        !.i = IF last THEN @ + 1 ELSE @,
                        !.pc = IF retval # 0 THEN "done"
                               ELSE IF last THEN AfterChunk(wb.i)
                               ELSE "page"]
    /\ UNCHANGED <<world, chunk_ids_in, wb_buffer>>
    /\ UNCHANGED <<mgmem, cb, um, info, module_refcnt, panic, ghost, taskVars, ioctl_file, lockst>>

\* lines 1465-1474: the run still pending after the last chunk is submitted,
\* what submit_ssd2gpu_memcpy returns is dropped, the function returns 0
FinalFlush(env) ==
    /\ Alive
    /\ wb.pc = "flush"
    /\ LET pending == wtask.nr_blocks > 0
           rc == IF pending THEN submit_ssd2gpu_memcpy(wtask, world, env) ELSE 0
       IN  /\ env # 0 => pending
           /\ karg' = [karg EXCEPT
                          !.nr_dma_submit = IF pending THEN @ + 1 ELSE @,
                          !.nr_dma_blocks = IF pending THEN @ + wtask.nr_blocks ELSE @]
           /\ xfers' = IF pending /\ rc = 0
                       THEN Append(xfers, XferOf(wtask, world)) ELSE xfers
           /\ wb' = [wb EXCEPT !.pc = "done", !.retval = 0, !.final_rc = rc,
                               !.last_op = "final"]
           /\ panic' = IF karg.nr_ram2gpu + karg.nr_ssd2gpu = karg.nr_chunks
                       THEN panic
                       ELSE "Assert(karg->nr_ram2gpu + karg->nr_ssd2gpu == karg->nr_chunks)"
    /\ UNCHANGED <<world, chunk_ids_in, chunk_ids_out, wb_buffer, wtask>>
    /\ UNCHANGED <<mgmem, cb, um, info, module_refcnt, ghost, taskVars, ioctl_file, lockst>>

(* -------------------------- the slot spin locks ------------------------- *)

\* threads running functions of the module side by side
MaxLockThreads == 2
LockThreads == 1..MaxLockThreads

\* strom_mgmem_locks[] and strom_dma_task_locks[]: two slots of each
MgmemLocks == <<"strom_mgmem_locks[0]", "strom_mgmem_locks[1]">>
DtaskLocks == <<"strom_dma_task_locks[0]", "strom_dma_task_locks[1]">>
SlotLocks == {MgmemLocks[1], MgmemLocks[2], DtaskLocks[1], DtaskLocks[2]}

\* what a function does to the locks, statement by statement: it takes a
\* lock, releases a lock, calls schedule(), or touches user memory with
\* copy_from_user, copy_to_user or put_user, which sleeps when the page
\* has to be faulted in
SpinLock(l, line) == [op |-> "spin_lock_irqsave", lock |-> l, line |-> line]
SpinUnlock(l, line) == [op |-> "spin_unlock_irqrestore", lock |-> l, line |-> line]
Schedule(line) == [op |-> "schedule", lock |-> "none", line |-> line]
UserCopy(line) == [op |-> "user_copy", lock |-> "none", line |-> line]

\* strom_get_mapped_gpu_memory, lines 173-189: found, not found
GetMappedFound(m) == <<SpinLock(m, 173), SpinUnlock(m, 184)>>
GetMappedNotFound(m) == <<SpinLock(m, 173), SpinUnlock(m, 189)>>
\* strom_put_mapped_gpu_memory, lines 206-214
PutMapped(m) == <<SpinLock(m, 206), SpinUnlock(m, 214)>>

\* callback_release_mapped_gpu_memory, lines 232-264: refcnt = 0, refcnt > 0
CallbackPaths(m) ==
    { <<SpinLock(m, 232), SpinUnlock(m, 264)>>,
      <<SpinLock(m, 232), SpinUnlock(m, 254), Schedule(256),
        SpinLock(m, 261), SpinUnlock(m, 264)>> }

\* ioctl_map_gpu_memory, lines 298-388
MapPaths(m) ==
    { <<UserCopy(298), UserCopy(355), SpinLock(m, 386), SpinUnlock(m, 388)>> }

\* ioctl_unmap_gpu_memory, lines 415-445: found, not found
UnmapPaths(m) ==
    { <<UserCopy(415), SpinLock(m, 422), SpinUnlock(m, 435)>>,
      <<UserCopy(415), SpinLock(m, 422), SpinUnlock(m, 445)>> }

\* ioctl_list_gpu_memory, lines 477-489: one slot, with a record in it or empty
ListSlot(m, has_entry) ==
    <<SpinLock(m, 477)>>
    \o (IF has_entry THEN <<UserCopy(483)>> ELSE <<>>)
    \o <<SpinUnlock(m, 489)>>

\* ioctl_list_gpu_memory, lines 467-492
ListPaths ==
    { <<UserCopy(467)>> \o ListSlot(MgmemLocks[1], a) \o ListSlot(MgmemLocks[2], b)
         \o <<UserCopy(492)>> : a \in BOOLEAN, b \in BOOLEAN }

\* ioctl_info_gpu_memory, lines 514-548: not found, header copy fault,
\* page addresses stored
InfoPaths(m) ==
    { <<UserCopy(514)>> \o GetMappedNotFound(m),
      <<UserCopy(514)>> \o GetMappedFound(m) \o <<UserCopy(528)>> \o PutMapped(m),
      <<UserCopy(514)>> \o GetMappedFound(m) \o <<UserCopy(528), UserCopy(539)>>
         \o PutMapped(m) }

\* strom_create_dma_task, lines 899-935
CreatePaths(m, t) ==
    { GetMappedNotFound(m),
      GetMappedFound(m) \o <<SpinLock(t, 933), SpinUnlock(t, 935)>> }

\* strom_put_dma_task, lines 972-1018: a failure status but not the last
\* reference, the last reference with and without a failure status
PutTaskPaths(m, t) ==
    { <<SpinLock(t, 974), SpinUnlock(t, 1018)>>,
      <<SpinLock(t, 974), SpinUnlock(t, 1004)>> \o PutMapped(m),
      <<SpinLock(t, 988), SpinUnlock(t, 1004)>> \o PutMapped(m) }

\* strom_memcpy_ssd2gpu_wait, lines 1155-1205, one turn of its loop: the task
\* is running, the record is taken off the failed list, the retry under the
\* lock finds the task gone or running
WaitPaths(t) ==
    { <<Schedule(1205)>>,
      <<SpinLock(t, 1167), SpinUnlock(t, 1173)>>,
      <<SpinLock(t, 1167), SpinUnlock(t, 1192)>>,
      <<SpinLock(t, 1167), SpinUnlock(t, 1192), Schedule(1205)>> }

\* strom_proc_release, lines 1592-1604, slot after slot
ReleasePaths ==
    { <<SpinLock(DtaskLocks[1], 1592), SpinUnlock(DtaskLocks[1], 1604),
        SpinLock(DtaskLocks[2], 1592), SpinUnlock(DtaskLocks[2], 1604)>> }

\* every way through a function of the module that takes a slot lock
LockPaths ==
    UNION { CallbackPaths(m) \cup MapPaths(m) \cup UnmapPaths(m) \cup InfoPaths(m)
              : m \in {MgmemLocks[1], MgmemLocks[2]} }
    \cup UNION { CreatePaths(m, t) \cup PutTaskPaths(m, t)
                   : m \in {MgmemLocks[1], MgmemLocks[2]},
                     t \in {DtaskLocks[1], DtaskLocks[2]} }
    \cup UNION { WaitPaths(t) : t \in {DtaskLocks[1], DtaskLocks[2]} }
    \cup ListPaths \cup ReleasePaths

\* the locks a thread holds
HeldBy(h) == { l \in SlotLocks : lockst.owner[l] = h }

\* the statement a thread is at, if it is inside a function
InFunction(h) == lockst.th[h].pc <= Len(lockst.th[h].code)
CurrentStmt(h) == lockst.th[h].code[lockst.th[h].pc]

LockUnchanged ==
    UNCHANGED <<mgmem, cb, um, info, module_refcnt, panic, ghost, taskVars, schedVars,
                ioctl_file>>

\* a thread enters one of the functions
LockCall(h, path) ==
    /\ ~InFunction(h)
    /\ lockst' = [lockst EXCEPT !.th[h] = [code |-> path, pc |-> 1, blocked |-> FALSE]]
    /\ LockUnchanged

\* spin_lock_irqsave: the thread spins until the lock is free
LockAcquire(h) ==
    /\ InFunction(h)
    /\ CurrentStmt(h).op = "spin_lock_irqsave"
    /\ lockst.owner[CurrentStmt(h).lock] = 0
    /\ lockst' = [lockst EXCEPT !.owner[CurrentStmt(h).lock] = h, !.th[h].pc = @ + 1]
    /\ LockUnchanged

\* spin_unlock_irqrestore
LockRelease(h) ==
    /\ InFunction(h)
    /\ CurrentStmt(h).op = "spin_unlock_irqrestore"
    /\ lockst' = [lockst EXCEPT !.owner[CurrentStmt(h).lock] = 0, !.th[h].pc = @ + 1]
    /\ LockUnchanged

\* the access to user memory finds the page resident
LockUserCopy(h) ==
    /\ InFunction(h)
    /\ ~lockst.th[h].blocked
    /\ CurrentStmt(h).op = "user_copy"
    /\ lockst' = [lockst EXCEPT !.th[h].pc = @ + 1]
    /\ LockUnchanged

\* schedule(), or an access to user memory that faults: the thread sleeps
LockSleep(h) ==
    /\ InFunction(h)
    /\ ~lockst.th[h].blocked
    /\ CurrentStmt(h).op \in {"schedule", "user_copy"}
    /\ lockst' = [lockst EXCEPT !.th[h].blocked = TRUE]
    /\ LockUnchanged

\* the thread is woken and goes on behind the statement it slept in
LockWake(h) ==
    /\ InFunction(h)
    /\ lockst.th[h].blocked
    /\ lockst' = [lockst EXCEPT !.th[h].blocked = FALSE, !.th[h].pc = @ + 1]
    /\ LockUnchanged

LockNext ==
    \/ \E h \in LockThreads : \E path \in LockPaths : LockCall(h, path)
    \/ \E h \in LockThreads : LockAcquire(h)
    \/ \E h \in LockThreads : LockRelease(h)
    \/ \E h \in LockThreads : LockUserCopy(h)
    \/ \E h \in LockThreads : LockSleep(h)
    \/ \E h \in LockThreads : LockWake(h)

(* ------------------------------ the system ------------------------------ *)

Init ==
    /\ mgmem = [r \in Regions |->
                  [state |-> "unalloc", owner |-> "nobody", refcnt |-> 0,
                   chain |-> "null", wait_task |-> "NULL", page_table |-> "none"]]
    /\ cb = [r \in Regions |->
               [pc |-> "idle", tstate |-> "TASK_RUNNING", wait_task_saved |-> "NULL"]]
    /\ um = [r \in Regions |-> [pc |-> "idle", last_rc |-> 0]]
    /\ info = [pc |-> "idle", mg |-> NULL, rc |-> 0]
    /\ module_refcnt = 0
    /\ panic = "none"
    /\ ghost = [r \in Regions |->
                  [unpins |-> 0, acquired |-> FALSE, uaf |-> FALSE, map_rc |-> 1,
                   unpinned_at_refcnt |-> 0, freed_at_refcnt |-> 0,
                   cb_slept |-> FALSE, notfound_after_removal |-> FALSE,
                   foreign_denied |-> FALSE]]
    /\ dtask = [t \in Tasks |->
                  [mem |-> "unalloc", where |-> "none", refcnt |-> 0,
                   frozen |-> FALSE, mgmem |-> NULL, dma_status |-> 0,
                   ioctl_filp |-> NULL]]
    /\ sub = [t \in Tasks |->
                [pc |-> "idle", handle |-> NULL, retval |-> 0, nsub |-> 0,
                 inflight |-> 0]]
    /\ tail = [t \in Tasks |->
                 [pc |-> "none", owner |-> "none", mgmem |-> NULL, dma_status |-> 0]]
    /\ waiter = [w \in WaitIds |->
                   [pc |-> "idle", id |-> 1, retval |-> 0, status |-> 0,
                    onq |-> FALSE, tstate |-> "TASK_RUNNING",
                    task_state |-> "TASK_INTERRUPTIBLE", sig |-> FALSE]]
    /\ tghost = [t \in Tasks |->
                   [kfrees |-> 0, eio_returns |-> 0, ignored |-> FALSE,
                    lost_race |-> FALSE, missed |-> FALSE, created_filp |-> NULL,
                    mgmem_puts |-> 0, data_fputs |-> 0]]
    /\ world = [map_offset |-> 0, map_length |-> 0, gpu_page_shift |-> 12,
                entries |-> 0, blocksz_shift |-> 12, layout |-> "contig",
                cache |-> [first |-> 0, count |-> 0, dirty |-> FALSE], i_size |-> 0]
    /\ karg = [offset |-> 0, nr_chunks |-> 0, chunk_sz |-> 0, relseg_sz |-> 0,
               nr_ram2gpu |-> 0, nr_ssd2gpu |-> 0, nr_dma_submit |-> 0,
               nr_dma_blocks |-> 0]
    /\ chunk_ids_in = [p \in {} |-> 0]
    /\ chunk_ids_out = [p \in {} |-> UNSET]
    /\ wb_buffer = [p \in {} |-> UNSET]
    /\ wtask = [blocksz |-> 0, blocksz_shift |-> 0, max_nblocks |-> 0,
                dest_offset |-> 0, src_block |-> 0, nr_blocks |-> 0]
    /\ wb = [pc |-> "idle", i |-> 0, j |-> 0, chunk_id |-> 0, fpos |-> 0, score |-> 0,
             dest_offset |-> 0, curr_offset |-> 0, retval |-> 0, final_rc |-> 0,
             last_op |-> "none"]
    /\ xfers = <<>>
    /\ ioctl_file = [fd_open |-> TRUE, f_count |-> 1, released |-> FALSE]
    /\ lockst = [owner |-> [l \in SlotLocks |-> 0],
                 th |-> [h \in LockThreads |-> [code |-> <<>>, pc |-> 1, blocked |-> FALSE]]]

\* the mapping registry with its acquirers: the info ioctl and the DMA tasks
RegionNext ==
    \/ \E r \in Regions, uid \in Uids, o \in MapOutcomes : ioctl_map_gpu_memory(r, uid, o)
    \/ \E r \in Regions, uid \in Uids : UnmapDetach(r, uid)
    \/ \E r \in Regions, rc \in {0, EINVAL} : UnmapPutPages(r, rc)
    \/ \E r \in Regions : CallbackEnter(r)
    \/ \E r \in Regions : CallbackSchedule(r)
    \/ \E r \in Regions : CallbackFree(r)
    \/ \E r \in Regions, uid \in Uids : InfoGet(r, uid)
    \/ \E rc \in {0, EFAULT, ENOBUFS} : InfoPut(rc)

\* one DMA task from its creation to the last strom_put_dma_task
TaskNext ==
    \/ \E t \in Tasks, r \in Regions, uid \in Uids : strom_create_dma_task(t, r, uid)
    \/ \E t \in Tasks : SubmitDma(t)
    \/ \E t \in Tasks, st \in DmaStatuses : DmaComplete(t, st)
    \/ \E t \in Tasks, rv \in SubmitRetvals : SubmitterFreeze(t, rv)
    \/ \E t \in Tasks : SubmitterPut(t)
    \/ \E t \in Tasks, fault \in BOOLEAN : SubmitterAfterPut(t, fault)
    \/ \E t \in Tasks : SubmitterReturn(t)
    \/ \E t \in Tasks : PutTailLock(t)
    \/ \E t \in Tasks : PutTailWake(t)
    \/ \E t \in Tasks : PutTailRelease(t)

\* the steps of strom_memcpy_ssd2gpu_wait, whoever called it
WaitNext ==
    \/ \E w \in WaitIds : WaitCheckRcu(w)
    \/ \E w \in WaitIds : WaitCheckRunning(w)
    \/ \E w \in WaitIds : WaitCheckLocked(w)
    \/ \E w \in WaitIds : WaitKfree(w)
    \/ \E w \in WaitIds : WaitPrepare(w)
    \/ \E w \in WaitIds : WaitSchedule(w)

\* the wait ioctl called from user space, and signals sent to its callers
UserWaitNext ==
    \/ \E w \in WaitIds, id \in Tasks : WaitStart(w, id)
    \/ \E w \in WaitIds : SignalArrives(w)

\* the descriptor is closed and the file is released
SessionNext ==
    \/ CloseFile
    \/ strom_proc_release(Filp)

\* one batch through the request scheduler
SchedNext ==
    \/ WritebackEnter
    \/ \E wbrc \in {0, EFAULT, EIO} : ChunkBegin(wbrc)
    \/ \E gbrc \in {0, EIO}, env \in {0, ENOMEM, EIO} : SubmitPage(gbrc, env)
    \/ \E env \in {0, ENOMEM, EIO} : FinalFlush(env)

Next == RegionNext \/ TaskNext \/ WaitNext \/ UserWaitNext \/ SessionNext \/ SchedNext
           \/ LockNext

Spec == Init /\ [][Next]_vars

\* the mapping registry under every interleaving of map, unmap, revocation,
\* info and DMA tasks; no thread calls the wait ioctl
MapSpec == Init /\ [][RegionNext \/ TaskNext \/ WaitNext]_vars

\* the task registry under every interleaving of submission, completion and
\* wait; the region is mapped and neither unmapped nor revoked
MapOnly == \E r \in Regions, uid \in Uids, o \in MapOutcomes : ioctl_map_gpu_memory(r, uid, o)

TaskSpec == Init /\ [][MapOnly \/ TaskNext \/ WaitNext \/ UserWaitNext]_vars

\* threads keep running: a DMA request completes, the submitting ioctl leaves
\* its loop and puts the task, a put that reached zero runs to its end, the
\* info ioctl puts the region, and the callback thread runs when it is runnable
Fairness ==
    /\ \A r \in Regions : WF_vars(CallbackSchedule(r)) /\ WF_vars(CallbackFree(r))
    /\ WF_vars(\E rc \in {0, EFAULT, ENOBUFS} : InfoPut(rc))
    /\ \A t \in Tasks :
          /\ WF_vars(\E st \in DmaStatuses : DmaComplete(t, st))
          /\ WF_vars(\E rv \in SubmitRetvals : SubmitterFreeze(t, rv))
          /\ WF_vars(SubmitterPut(t))
          /\ WF_vars(PutTailLock(t))
          /\ WF_vars(PutTailWake(t))
          /\ WF_vars(PutTailRelease(t))

FairMapSpec == MapSpec /\ Fairness

\* the threads inside the submitting ioctl and inside the wait keep running
\* too; no signal has to arrive and no other wait has to be called
WaitFairness ==
    /\ \A t \in Tasks :
          /\ WF_vars(\E fault \in BOOLEAN : SubmitterAfterPut(t, fault))
          /\ WF_vars(SubmitterReturn(t))
    /\ \A w \in WaitIds :
          /\ WF_vars(WaitCheckRcu(w))
          /\ WF_vars(WaitCheckRunning(w))
          /\ WF_vars(WaitCheckLocked(w))
          /\ WF_vars(WaitKfree(w))
          /\ WF_vars(WaitPrepare(w))
          /\ WF_vars(WaitSchedule(w))

FairTaskSpec == TaskSpec /\ Fairness /\ WaitFairness

\* the task registry with the close of the ioctl file: tasks are submitted and
\* complete, the submitting ioctl waits on its error path, and the descriptor
\* is closed at any moment
SessionSpec == Init /\ [][MapOnly \/ TaskNext \/ WaitNext \/ SessionNext]_vars

\* the request scheduler alone: every batch the input sets offer, against
\* every mapping, file layout and page cache image, with every failure of the
\* block lookup, the write-back copy and the submission
SchedSpec == Init /\ [][SchedNext]_vars

\* the functions of the module seen as users of the slot locks
LockSpec == Init /\ [][LockNext]_vars

(* ------------------------------- claims --------------------------------- *)

\* C1: under every interleaving of acquire, release and the revocation
\* callback the refcount of a region is never negative, neither refcount
\* assertion fails, and the callback is past its wait, or has released the page
\* table and freed the record, only with refcnt = 0.
C1_RefcntNeverNegativeNoEarlyFree ==
    /\ panic \notin {"Assert(mgmem->refcnt > 0)", "Assert(mgmem->refcnt == 0)"}
    /\ \A r \in Regions :
          /\ mgmem[r].refcnt >= 0
          /\ cb[r].pc \in {"free", "done"} => mgmem[r].refcnt = 0
          /\ ghost[r].freed_at_refcnt = 0

\* C1 witness: the callback slept on a referenced region and then freed it
C1_Witness ==
    \E r \in Regions :
        /\ ghost[r].cb_slept
        /\ cb[r].pc = "done"
        /\ mgmem[r].state = "freed"

\* C2: a region whose refcount is positive has not been unpinned
C2_NoUnpinWhileReferenced ==
    \A r \in Regions :
        mgmem[r].refcnt > 0 => mgmem[r].page_table # "released"

\* C3: once the sticky status of a task is non-zero no step changes it
C3_StickyStatusKept ==
    [][\A t \in Tasks :
          dtask[t].dma_status # 0 => dtask'[t].dma_status = dtask[t].dma_status]_vars

\* C3 witness: a completion carrying another non-zero status was put on a task
\* whose status was already set
C3_Witness ==
    \E t \in Tasks : tghost[t].ignored /\ dtask[t].dma_status # 0

C5_MergeIffPredicate ==
    [][(wb.pc = "page" /\ wb'.last_op # "get_block_failed") =>
          LET blocknr == strom_get_block(world, wb.fpos \div wtask.blocksz)
              new_blocks == PAGE_CACHE_SIZE \div wtask.blocksz
              cond == /\ wtask.nr_blocks > 0
                      /\ blocknr = wtask.src_block + wtask.nr_blocks
                      /\ wb.curr_offset = wtask.dest_offset + wtask.nr_blocks * wtask.blocksz
                      /\ wtask.nr_blocks + new_blocks <= wtask.max_nblocks
              merged == /\ wb'.last_op = "merge"
                        /\ wtask' = [wtask EXCEPT !.nr_blocks = @ + new_blocks]
                        /\ xfers' = xfers
                        /\ karg'.nr_dma_submit = karg.nr_dma_submit
              new_run == [wtask EXCEPT !.dest_offset = wb.curr_offset,
                                       !.src_block = blocknr,
                                       !.nr_blocks = new_blocks]
              old_run == [dest_offset |-> wtask.dest_offset,
                          src_block |-> wtask.src_block,
                          nr_blocks |-> wtask.nr_blocks]
          IN  /\ merged <=> cond
              /\ ~cond => (wtask' = new_run \/ (wtask' = wtask /\ wb'.retval # 0))
              /\ (~cond /\ wtask.nr_blocks > 0) =>
                    /\ karg'.nr_dma_submit = karg.nr_dma_submit + 1
                    /\ karg'.nr_dma_blocks = karg.nr_dma_blocks + wtask.nr_blocks
                    /\ \/ /\ wtask' = new_run
                          /\ Len(xfers') = Len(xfers) + 1
                          /\ SubSeq(xfers', 1, Len(xfers)) = xfers
                          /\ [f \in {"dest_offset", "src_block", "nr_blocks"} |->
                                 xfers'[Len(xfers')][f]] = old_run
                       \/ /\ wtask' = wtask
                          /\ xfers' = xfers
                          /\ wb'.retval # 0
                          /\ wb'.pc = "done"
      ]_vars

\* C5 witness: a run that had reached max_nblocks was submitted because the
\* next contiguous block did not fit, and the new run has been merged into
C5_Witness ==
    /\ Len(xfers) > 0
    /\ xfers[Len(xfers)].nr_blocks = wtask.max_nblocks
    /\ xfers[Len(xfers)].src_block + wtask.max_nblocks = wtask.src_block
    /\ wb.last_op = "merge"

\* the scenario of C6 and C7: a 1 MiB mapping with 64 KiB device pages, 5
\* chunks of 32 KiB with consecutive ids in a file laid out contiguously, and
\* a batch that returned success with every submission accepted
ScenarioBatchDone ==
    /\ world.map_offset = 0
    /\ world.map_length = 1024 * 1024
    /\ world.gpu_page_shift = 16
    /\ world.layout = "contig"
    /\ karg.nr_chunks = 5
    /\ karg.chunk_sz = 32 * 1024
    /\ karg.relseg_sz = 0
    /\ \A p \in 1..4 : chunk_ids_in[p] = chunk_ids_in[p - 1] + 1
    /\ wb.pc = "done"
    /\ wb.retval = 0
    /\ wb.final_rc = 0

\* the pages of the chunk at position p (from 0) of the batch
ChunkPagesAt(p) ==
    { (chunk_ids_in[p] * karg.chunk_sz) \div PAGE_CACHE_SIZE + j :
          j \in 0..(karg.chunk_sz \div PAGE_CACHE_SIZE - 1) }

\* the device block of the first page of the chunk at position p, and the
\* blocks of one chunk
ChunkBlockAt(p) ==
    strom_get_block(world, (chunk_ids_in[p] * karg.chunk_sz) \div wtask.blocksz)

ChunkBlocks == karg.chunk_sz \div wtask.blocksz

AllCold ==
    \A p \in 0..4 : \A k \in ChunkPagesAt(p) : PageState(world.cache, k) = "absent"

OnlyThirdDirty ==
    \A p \in 0..4 : \A k \in ChunkPagesAt(p) :
        PageState(world.cache, k) = IF p = 2 THEN "dirty" ELSE "absent"

\* C6 as stated: in the scenario with every chunk cache-cold, exactly one
\* transfer covering the blocks of all 5 chunks, direct_count = 5 and
\* writeback_count = 0
C6_OneTransferForFiveChunks ==
    (ScenarioBatchDone /\ AllCold) =>
        /\ Len(xfers) = 1
        /\ xfers[1].src_block = ChunkBlockAt(0)
        /\ xfers[1].nr_blocks = 5 * ChunkBlocks
        /\ karg.nr_ssd2gpu = 5
        /\ karg.nr_ram2gpu = 0

\* C6 amended: in the scenario with every chunk cache-cold, exactly two
\* transfers, the first covering the blocks of chunks 1-4 (128 KiB, the most
\* one transfer takes) and the second the blocks of chunk 5, with
\* direct_count = 5 and writeback_count = 0
C6_TwoTransfersForFiveChunks ==
    (ScenarioBatchDone /\ AllCold) =>
        /\ Len(xfers) = 2
        /\ xfers[1].src_block = ChunkBlockAt(0)
        /\ xfers[1].nr_blocks = 4 * ChunkBlocks
        /\ xfers[1].nr_blocks = wtask.max_nblocks
        /\ xfers[1].dest_offset = karg.offset
        /\ xfers[2].src_block = ChunkBlockAt(4)
        /\ xfers[2].nr_blocks = ChunkBlocks
        /\ xfers[2].dest_offset = karg.offset + 4 * karg.chunk_sz
        /\ karg.nr_dma_submit = 2
        /\ karg.nr_dma_blocks = 5 * ChunkBlocks
        /\ karg.nr_ssd2gpu = 5
        /\ karg.nr_ram2gpu = 0

\* C6 witness: the cold 5-chunk batch has returned and its last transfer is
\* the one for chunk 5
C6_Witness ==
    /\ ScenarioBatchDone
    /\ AllCold
    /\ karg.nr_ssd2gpu = 5
    /\ Len(xfers) > 0
    /\ xfers[Len(xfers)].src_block = ChunkBlockAt(4)

\* C7: in the scenario with only the pages of chunk 3 resident, all dirty,
\* chunk 3 is written back and exactly two transfers are submitted, one
\* covering chunks 1-2 and one covering chunks 4-5, with direct_count = 4 and
\* writeback_count = 1
C7_DirtyChunkSplitsTheRun ==
    (ScenarioBatchDone /\ OnlyThirdDirty) =>
        /\ karg.nr_ram2gpu = 1
        /\ karg.nr_ssd2gpu = 4
        /\ wb_buffer[4] = chunk_ids_in[2]
        /\ chunk_ids_out[4] = chunk_ids_in[2]
        /\ Len(xfers) = 2
        /\ xfers[1].src_block = ChunkBlockAt(0)
        /\ xfers[1].nr_blocks = 2 * ChunkBlocks
        /\ xfers[1].dest_offset = karg.offset
        /\ xfers[2].src_block = ChunkBlockAt(3)
        /\ xfers[2].nr_blocks = 2 * ChunkBlocks
        /\ xfers[2].dest_offset = karg.offset + 2 * karg.chunk_sz
        /\ karg.nr_dma_submit = 2

\* C7 witness: the batch with the dirty third chunk has returned after it
\* wrote one chunk back
C7_Witness ==
    /\ ScenarioBatchDone
    /\ OnlyThirdDirty
    /\ karg.nr_ram2gpu = 1
    /\ Len(xfers) = 2

\* C8: once a registered region is off the lookup table it stays off, its
\* refcount never increases, and an acquire of its handle (by the info ioctl
\* or by task creation) returns -ENOENT
C8_RemovedRegionNotAcquired ==
    [][\A r \in Regions :
          (mgmem[r].state # "unalloc" /\ mgmem[r].chain = "null") =>
             /\ mgmem'[r].chain = "null"
             /\ mgmem'[r].refcnt <= mgmem[r].refcnt
             /\ (info.pc = "idle" /\ info' # info /\ info'.mg = r)
                   => (info'.pc = "idle" /\ info'.rc = ENOENT)
             /\ \A t \in Tasks :
                   (sub[t].pc = "idle" /\ sub'[t] # sub[t] /\ sub'[t].handle = r)
                      => (sub'[t].pc = "idle" /\ sub'[t].retval = ENOENT)]_vars

\* C8 witness: the owner's acquire failed while the revocation was still
\* blocked on a positive refcount
C8_Witness ==
    \E r \in Regions :
        /\ ghost[r].notfound_after_removal
        /\ cb[r].pc = "schedule"
        /\ mgmem[r].refcnt > 0

\* C9: a callback that found refcnt > 0 stays blocked, the record allocated,
\* while the refcount is positive; and with threads that keep running it
\* wakes, releases the page table and frees the record
C9_RevocationWaitsThenCompletes ==
    /\ [](\A r \in Regions :
            (cb[r].pc = "schedule" /\ mgmem[r].refcnt > 0) =>
               /\ cb[r].tstate = "TASK_UNINTERRUPTIBLE"
               /\ mgmem[r].state = "alloc"
               /\ ~ENABLED CallbackSchedule(r))
    /\ \A r \in Regions :
          (cb[r].pc = "schedule") ~>
             (cb[r].pc = "done" /\ mgmem[r].state = "freed"
              /\ mgmem[r].page_table = "released")

\* C9 witness: the last release came while the callback was registered as the
\* waiter and made it runnable
C9_Witness ==
    \E r \in Regions :
        /\ cb[r].pc = "schedule"
        /\ cb[r].tstate = "TASK_RUNNING"
        /\ mgmem[r].refcnt = 0

\* C10: map then unmap by the owner, with no acquire and no revocation in
\* between: the unmap is never blocked, returns 0, the handle is off the lookup
\* table and the page table was released exactly once
C10_MapUnmapRoundTrip ==
    \A r \in Regions :
        (~ghost[r].acquired /\ cb[r].pc = "idle") =>
           /\ um[r].pc = "put_pages" =>
                 /\ mgmem[r].chain = "null"
                 /\ ENABLED (\E rc \in {0, EINVAL} : UnmapPutPages(r, rc))
           /\ um[r].pc = "done" =>
                 /\ um[r].last_rc = 0
                 /\ mgmem[r].chain = "null"
                 /\ mgmem[r].page_table = "released"
                 /\ ghost[r].unpins = 1

\* C10 witness: the round trip is over
C10_Witness ==
    \E r \in Regions :
        /\ ~ghost[r].acquired
        /\ cb[r].pc = "idle"
        /\ um[r].pc = "done"
        /\ ghost[r].map_rc = 0

\* C11: whatever the interleaving of the explicit unmap and the revocation
\* callback on a region, its page table is released at most once and no path
\* reads the record after it was freed
C11_UnmapAndCallbackReleaseOnce ==
    \A r \in Regions :
        /\ ghost[r].unpins <= 1
        /\ ~ghost[r].uaf

\* C12: no wait returns success on a task id whose record, with its non-zero
\* status, is in the failed list at that moment
C12_NoSuccessForFailedTask ==
    [][\A w \in WaitIds :
          (waiter[w].pc # "done" /\ waiter'[w].pc = "done" /\ waiter'[w].retval = 0)
             => ~(/\ dtask[waiter[w].id].where = "failed"
                  /\ dtask[waiter[w].id].dma_status # 0
                  /\ dtask'[waiter[w].id].where = "failed")]_vars

\* C13: under fair scheduling every wait that found its task in the running
\* list, and so goes to sleep on the slot's wait queue, eventually returns
C13_BlockedWaitEventuallyReturns ==
    \A w \in WaitIds :
        (waiter[w].pc \in {"prepare", "schedule"})
            ~> (waiter[w].pc = "done" \/ panic # "none")

\* C14: once the ioctl file is released, no record of a task created through
\* it is left in a failed list
C14_NoFailureRecordAfterRelease ==
    ioctl_file.released =>
        \A t \in Tasks :
            ~(dtask[t].where = "failed" /\ tghost[t].created_filp = Filp)

\* C15: when the submitting ioctl returns an error for a task it created, no
\* transfer of the task is in flight, the task id is in neither list, and the
\* task's reference on the region has been put
C15_ErrorReturnLeavesNothingBehind ==
    [][\A t \in Tasks :
          (sub[t].pc = "wait" /\ sub'[t].pc = "done" /\ sub[t].retval # 0)
             => /\ sub[t].inflight = 0
                /\ dtask[t].where = "none"
                /\ mgmem[sub[t].handle].refcnt = 0]_vars

\* C16: a task whose refcnt is zero is frozen and has no transfer in flight,
\* and Assert(dtask->frozen) never fails
C16_ZeroRefcntOnlyWhenFrozenAndDrained ==
    /\ panic # "Assert(dtask->frozen)"
    /\ \A t \in Tasks :
          (dtask[t].mem # "unalloc" /\ dtask[t].refcnt = 0)
             => (dtask[t].frozen /\ sub[t].inflight = 0)

\* a completion callback brought the refcnt of a task with MaxXfers transfers
\* to zero and is past the Assert
C16_Witness ==
    \E t \in Tasks :
        /\ dtask[t].refcnt = 0
        /\ sub[t].nsub = MaxXfers
        /\ tail[t].owner = "completion"
        /\ tail[t].pc = "wake"

\* C17: once the submitting ioctl has put its reference, a device error that
\* memcpy_ssd2gpu_writeback returned is the task's status, or an earlier
\* non-zero status is
C17_DeviceErrorBecomesStickyStatus ==
    \A t \in Tasks :
        (sub[t].pc \in {"after_put", "wait", "done"} /\ sub[t].retval = EIO)
           => dtask[t].dma_status # 0

\* C18: when memcpy_ssd2gpu_writeback has returned, a failure of the block
\* lookup or of a submission, on a run flushed inside the loop or on the final
\* flush, is what it returned
C18_FirstFailureReturned ==
    wb.pc = "done" =>
        /\ wb.last_op \in {"get_block_failed", "flush_failed"} => wb.retval # 0
        /\ wb.last_op = "final" => wb.retval = wb.final_rc

C20_RouteByCacheScore ==
    [][LET n == karg.chunk_sz \div PAGE_CACHE_SIZE
           threshold == n \div 2
           k == wb'.fpos \div PAGE_CACHE_SIZE
           clean == Cardinality({j \in 0..(n - 1) : PageState(world.cache, k + j) = "clean"})
           dirty == Cardinality({j \in 0..(n - 1) : PageState(world.cache, k + j) = "dirty"})
           score == clean + (threshold + 1) * dirty
           written == karg'.nr_ram2gpu = karg.nr_ram2gpu + 1
           direct == wb'.pc = "page"
       IN  (wb.pc = "chunk" /\ (written \/ direct)) =>
              /\ written <=> score > threshold
              /\ direct <=> score <= threshold
              /\ dirty >= 1 => written
              /\ clean + dirty = 0 => direct]_vars

\* a chunk of eight pages of which one is resident and dirty was written back
C20_Witness ==
    /\ wb.last_op = "writeback"
    /\ karg.chunk_sz = 8 * PAGE_CACHE_SIZE
    /\ world.cache = [first |-> 0, count |-> 1, dirty |-> TRUE]
    /\ wb.chunk_id = 0
    /\ wb.score = 5

\* whether the pages of chunk id in the page cache put it on the write-back
\* path, counted from the cache image
ChunkIsCached(id) ==
    LET n == karg.chunk_sz \div PAGE_CACHE_SIZE
        k == ChunkFpos(id, karg.relseg_sz, karg.chunk_sz) \div PAGE_CACHE_SIZE
        clean == Cardinality({j \in 0..(n - 1) : PageState(world.cache, k + j) = "clean"})
        dirty == Cardinality({j \in 0..(n - 1) : PageState(world.cache, k + j) = "dirty"})
    IN  clean + (n \div 2 + 1) * dirty > n \div 2

\* the chunk ids of the batch in processing order, and the two routes
InputIds == [p \in 1..karg.nr_chunks |-> chunk_ids_in[p - 1]]

DirectIds == SelectSeq(InputIds, LAMBDA id : ~ChunkIsCached(id))

WritebackIds == SelectSeq(InputIds, LAMBDA id : ChunkIsCached(id))

\* C21: when the batch has returned 0, nr_ssd2gpu + nr_ram2gpu = nr_chunks,
\* chunk_ids_out lists the directly read chunk ids from slot 0 upwards in
\* processing order and the written-back chunk ids from the last slot
\* downwards in processing order, and is a permutation of chunk_ids_in
C21_OutputListsBothRoutes ==
    (wb.pc = "done" /\ wb.retval = 0) =>
        /\ panic = "none"
        /\ karg.nr_ssd2gpu + karg.nr_ram2gpu = karg.nr_chunks
        /\ karg.nr_ssd2gpu = Len(DirectIds)
        /\ karg.nr_ram2gpu = Len(WritebackIds)
        /\ \A p \in 0..(karg.nr_ssd2gpu - 1) : chunk_ids_out[p] = DirectIds[p + 1]
        /\ \A q \in 0..(karg.nr_ram2gpu - 1) :
              chunk_ids_out[karg.nr_chunks - 1 - q] = WritebackIds[q + 1]
        /\ \A id \in {chunk_ids_in[p] : p \in 0..(karg.nr_chunks - 1)} :
              Cardinality({p \in 0..(karg.nr_chunks - 1) : chunk_ids_out[p] = id})
                 = Cardinality({p \in 0..(karg.nr_chunks - 1) : chunk_ids_in[p] = id})

\* a batch has returned 0 with at least two chunks on each route
C21_Witness ==
    /\ wb.pc = "done"
    /\ wb.retval = 0
    /\ karg.nr_ssd2gpu >= 2
    /\ karg.nr_ram2gpu >= 2
    /\ chunk_ids_out[karg.nr_chunks - 1] # chunk_ids_out[karg.nr_chunks - 2]

\* C22: on a registered region, the info ioctl, the creation of a DMA task
\* and the unmap ioctl called by a user other than the owner return -ENOENT
\* and leave the record as it is: refcnt, list membership, page table
C22_OnlyOwnerAcquiresOrUnmaps ==
    [][\A r \in Regions, uid \in Uids :
          (mgmem[r].state = "alloc" /\ mgmem[r].owner # uid) =>
             /\ InfoGet(r, uid) => (info'.rc = ENOENT /\ info'.pc = "idle" /\ mgmem' = mgmem)
             /\ UnmapDetach(r, uid) =>
                   (um'[r].last_rc = ENOENT /\ um'[r].pc = "idle" /\ mgmem' = mgmem)
             /\ \A t \in Tasks :
                   strom_create_dma_task(t, r, uid) =>
                      (sub'[t].retval = ENOENT /\ sub'[t].pc = "idle"
                         /\ mgmem' = mgmem /\ dtask' = dtask)]_vars

\* a user other than the owner was turned away from a region that is still
\* chained, pinned and has its owner's reference; the last unmap and the last
\* info call on it returned -ENOENT
C22_Witness ==
    \E r \in Regions :
        /\ ghost[r].foreign_denied
        /\ mgmem[r].chain = "linked"
        /\ mgmem[r].page_table = "pinned"
        /\ mgmem[r].refcnt = 1
        /\ um[r].last_rc = ENOENT
        /\ info.rc = ENOENT

TasksHolding(r) ==
    {t \in Tasks : dtask[t].mem # "unalloc" /\ sub[t].handle = r
                       /\ tghost[t].mgmem_puts = 0}

\* C24: a task puts its region and its data file once, after its refcnt
\* reached zero, whatever the order of the puts of the submitter and of the
\* completions; the refcnt of a region is the number of tasks that still hold
\* it plus the info ioctl if it is reading it
C24_TaskReleasesOnceAtZero ==
    /\ \A t \in Tasks :
          /\ tghost[t].mgmem_puts <= 1
          /\ tghost[t].data_fputs <= 1
          /\ tghost[t].mgmem_puts = tghost[t].data_fputs
          /\ tghost[t].mgmem_puts = 1 => (dtask[t].refcnt = 0 /\ sub[t].inflight = 0)
          /\ tail[t].pc = "done" => tghost[t].mgmem_puts = 1
    /\ \A r \in Regions :
          mgmem[r].state # "unalloc" =>
             mgmem[r].refcnt = Cardinality(TasksHolding(r))
                                  + (IF info.pc = "reading" /\ info.mg = r THEN 1 ELSE 0)

\* the last of three puts, a completion, brought the task to zero and put the
\* region, which the info ioctl still holds
C24_Witness ==
    \E t \in Tasks :
        /\ sub[t].nsub = MaxXfers
        /\ tail[t].owner = "completion"
        /\ tail[t].pc = "done"
        /\ tghost[t].mgmem_puts = 1
        /\ info.pc = "reading"
        /\ info.mg = sub[t].handle
        /\ mgmem[sub[t].handle].refcnt = 1

C26_FrozenTaskGainsNothing ==
    [][ /\ panic' \notin {"Assert(!dtask->frozen)", "Assert(refcnt_new > 1)"}
        /\ \A t \in Tasks :
              dtask[t].frozen =>
                /\ dtask'[t].frozen
                /\ dtask'[t].refcnt <= dtask[t].refcnt
                /\ sub'[t].nsub = sub[t].nsub ]_vars

\* both transfers were submitted before the freeze, and the last put of the
\* frozen task came from a completion
C26_Witness ==
    \E t \in Tasks :
        /\ dtask[t].frozen
        /\ sub[t].nsub = MaxXfers
        /\ sub[t].inflight = 0
        /\ tail[t].owner = "completion"
        /\ tail[t].pc = "done"
        /\ panic = "none"

\* the device blocks and destination offsets of the transfers, in submission
\* order, block by block
RECURSIVE XferBlockSeq(_)
XferBlockSeq(xs) ==
    IF xs = <<>> THEN <<>>
    ELSE LET x == Head(xs)
         IN  [k \in 1..x.nr_blocks |->
                 [blk |-> x.src_block + (k - 1),
                  dest |-> x.dest_offset + (k - 1) * wtask.blocksz]]
             \o XferBlockSeq(Tail(xs))

\* the device block and destination offset of every file block of the
\* directly routed chunks, in the order the chunks were processed
DirectBlockSeq ==
    LET per_chunk == karg.chunk_sz \div wtask.blocksz
    IN  [n \in 1..(karg.nr_ssd2gpu * per_chunk) |->
           LET d == (n - 1) \div per_chunk
               q == (n - 1) % per_chunk
               fpos == ChunkFpos(chunk_ids_out[d], karg.relseg_sz, karg.chunk_sz)
           IN  [blk |-> strom_get_block(world, fpos \div wtask.blocksz + q),
                dest |-> world.map_offset + karg.offset + d * karg.chunk_sz
                           + q * wtask.blocksz]]

\* the batch returned 0
BatchSucceeded == wb.pc = "done" /\ wb.retval = 0 /\ panic = "none"

\* the transfers cover the blocks of the direct chunks once each and in
\* order, and the counters reported agree with them
CoverAndCounters ==
    /\ XferBlockSeq(xfers) = DirectBlockSeq
    /\ karg.nr_dma_submit = Len(xfers)
    /\ karg.nr_dma_blocks =
          karg.nr_ssd2gpu * Shr(karg.chunk_sz, PAGE_CACHE_SHIFT)
                          * Shr(PAGE_CACHE_SIZE, wtask.blocksz_shift)

\* C27 as stated: when the batch returns 0, the transfers in submission order
\* cover the blocks of the directly routed chunks exactly once each and in
\* chunk-processing order, nr_dma_submit is the number of transfers submitted
\* and nr_dma_blocks is nr_ssd2gpu * pages per chunk * blocks per page
C27_TransfersCoverDirectChunks ==
    BatchSucceeded => CoverAndCounters

\* the part of C27 that holds: the same under the condition that the final
\* flush of lines 1466-1471 did not fail
C27_CoverWhenFinalFlushAccepted ==
    (BatchSucceeded /\ wb.final_rc = 0) => CoverAndCounters

\* C28: every transfer submitted has at least one block and at most
\* max_nblocks blocks, is at most 128 KiB long, and its destination bytes lie
\* inside the mapped region, from map_offset up to map_length
C28_TransfersWithinLimitsAndRegion ==
    \A n \in 1..Len(xfers) :
        LET x == xfers[n]
            nbytes == Shl(x.nr_blocks, wtask.blocksz_shift)
        IN  /\ x.nr_blocks >= 1
            /\ x.nr_blocks <= wtask.max_nblocks
            /\ nbytes <= STROM_DMA_SSD2GPU_MAXLEN
            /\ x.dest_offset >= world.map_offset
            /\ x.dest_offset + nbytes <= world.map_length

\* on a region that starts 4096 bytes into its first device page, one
\* transfer of max_nblocks blocks fills the region from its first byte to its
\* last
C28_Witness ==
    /\ world.map_offset # 0
    /\ \E n \in 1..Len(xfers) :
          /\ xfers[n].nr_blocks = wtask.max_nblocks
          /\ xfers[n].dest_offset = world.map_offset
          /\ xfers[n].dest_offset + Shl(xfers[n].nr_blocks, wtask.blocksz_shift)
                = world.map_length

\* C29 as stated: a thread holds at most one slot lock, and a thread that
\* sleeps holds none
C29_OneLockAndNoneAsleep ==
    \A h \in LockThreads :
        /\ Cardinality(HeldBy(h)) <= 1
        /\ lockst.th[h].blocked => HeldBy(h) = {}

\* the part of C29 that holds: at most one slot lock per thread, no lock held
\* across schedule(), and the only sleep with a lock held is the put_user of
\* ioctl_list_gpu_memory
C29_OnlyListSleepsLocked ==
    \A h \in LockThreads :
        /\ Cardinality(HeldBy(h)) <= 1
        /\ (lockst.th[h].blocked /\ HeldBy(h) # {})
              => (CurrentStmt(h).op = "user_copy" /\ CurrentStmt(h).line = 483)
        /\ ~InFunction(h) => HeldBy(h) = {}

\* C30: while ioctl_info_gpu_memory reads the page table it holds a reference
\* on the region, the revocation callback does not free the record or its
\* page table during that time, and the ioctl returns 0, -ENOBUFS or -EFAULT
\* having dropped exactly that one reference; a lookup that fails takes none
C30_InfoHoldsOneReference ==
    [][ /\ info.pc = "reading" =>
              /\ mgmem[info.mg].refcnt >= 1
              /\ mgmem[info.mg].state = "alloc"
              /\ ~CallbackFree(info.mg)
              /\ info'.pc = "reading" => info'.mg = info.mg
              /\ info'.pc = "idle" =>
                    /\ info'.rc \in {0, ENOBUFS, EFAULT}
                    /\ mgmem'[info.mg].refcnt = mgmem[info.mg].refcnt - 1
                    /\ mgmem'[info.mg].state = "alloc"
                    /\ panic' = "none"
        /\ (info.pc = "idle" /\ info'.pc = "reading") =>
              /\ mgmem'[info'.mg].refcnt = mgmem[info'.mg].refcnt + 1
              /\ mgmem[info'.mg].chain = "linked"
        /\ (info.pc = "idle" /\ info'.pc = "idle" /\ info' # info) =>
              (info'.rc = ENOENT /\ mgmem' = mgmem) ]_vars

\* no DMA task was ever created, the revocation callback slept for the
\* reference of the info ioctl, the ioctl returned after a copy fault, and the
\* callback then freed the record with refcnt 0
C30_Witness ==
    /\ \A t \in Tasks : dtask[t].mem = "unalloc"
    /\ info.pc = "idle"
    /\ info.rc = EFAULT
    /\ \E r \in Regions :
          /\ info.mg = r
          /\ ghost[r].cb_slept
          /\ cb[r].pc = "done"
          /\ mgmem[r].state = "freed"
          /\ ghost[r].freed_at_refcnt = 0

\* the regions ioctl_map_gpu_memory registered whose page table was not yet
\* released, and those whose record was not yet freed
RegionsPinned ==
    { r \in Regions : ghost[r].map_rc = 0 /\ mgmem[r].page_table = "pinned" }
RegionsAllocated ==
    { r \in Regions : ghost[r].map_rc = 0 /\ mgmem[r].state = "alloc" }

\* C31 as stated: the module reference count is the number of regions
\* registered and not yet destroyed, by the unmap ioctl or by the revocation
\* callback, and a destroyed region's record is freed
C31_KeepAliveCountsLiveRegions ==
    /\ module_refcnt = Cardinality(RegionsPinned)
    /\ \A r \in Regions :
          (ghost[r].map_rc = 0 /\ mgmem[r].page_table = "released")
             => mgmem[r].state = "freed"

\* the part of C31 that holds: the module reference count is the number of
\* registered regions whose record was not freed, a failed registration
\* takes none, and only the revocation callback frees a record and gives its
\* count back
C31_KeepAliveCountsUnfreedRecords ==
    /\ module_refcnt = Cardinality(RegionsAllocated)
    /\ \A r \in Regions :
          /\ (ghost[r].map_rc = 0 /\ mgmem[r].state = "freed") => cb[r].pc = "done"
          /\ (um[r].pc = "done" /\ cb[r].pc = "idle") => mgmem[r].state = "alloc"

\* two slot values are the same chunk id or the same mark
SameSlotValue(a, b) == ToString(a) = ToString(b)

\* where the batch starts in the region: mgmem->map_offset + karg->offset
BatchBase == world.map_offset + karg.offset

\* C32: every block of every transfer lies in the destination range of the
\* direct chunk its offset names, position q of the direct group owning
\* BatchBase + q * chunk_sz onwards, and is the device block of that chunk's
\* file block; the chunk listed at position p of the write-back group is the
\* one copied to wb_buffer + p * chunk_sz; the destination offset has
\* advanced by chunk_sz per direct chunk and not by the written-back ones
C32_PositionDeterminesPlacement ==
    wb.pc # "idle" =>
       /\ \A n \in 1..Len(xfers) : \A b \in 0..(xfers[n].nr_blocks - 1) :
             LET dest == xfers[n].dest_offset + b * wtask.blocksz
                 q == (dest - BatchBase) \div karg.chunk_sz
                 within == (dest - BatchBase) % karg.chunk_sz
                 id == IF q < karg.nr_ssd2gpu THEN chunk_ids_out[q] ELSE wb.chunk_id
             IN  /\ dest >= BatchBase
                 /\ q <= karg.nr_ssd2gpu
                 /\ q = karg.nr_ssd2gpu => wb.pc = "page"
                 /\ xfers[n].src_block + b =
                       strom_get_block(world,
                          (ChunkFpos(id, karg.relseg_sz, karg.chunk_sz) + within)
                             \div wtask.blocksz)
       /\ \A p \in DOMAIN wb_buffer :
             IF p >= karg.nr_chunks - karg.nr_ram2gpu
             THEN \/ SameSlotValue(wb_buffer[p], chunk_ids_out[p])
                  \/ /\ SameSlotValue(wb_buffer[p], "partial")
                     /\ p = karg.nr_chunks - karg.nr_ram2gpu
                     /\ wb.pc = "done"
                     /\ wb.retval # 0
             ELSE SameSlotValue(wb_buffer[p], UNSET)
       /\ wb.dest_offset = BatchBase + karg.nr_ssd2gpu * karg.chunk_sz

\* a batch that succeeded with its first chunk written back, two later
\* chunks transferred, on a region with map_offset 4096
C32_Witness ==
    /\ wb.pc = "done"
    /\ wb.retval = 0
    /\ wb.final_rc = 0
    /\ world.map_offset # 0
    /\ karg.nr_ram2gpu >= 1
    /\ karg.nr_ssd2gpu >= 2
    /\ wb_buffer[karg.nr_chunks - 1] = chunk_ids_in[0]
    /\ xfers # <<>>
    /\ xfers[1].dest_offset = BatchBase

=============================================================================
